---- MODULE Spec2Model ----
(***************************************************************************)
(* The in-process relational data engine of the timetable server           *)
(* (db/src/json.rs, db/src/lib.rs, db/src/seed.rs) and the request         *)
(* handlers that drive it (src/routes/*.rs).                               *)
(*                                                                         *)
(* The store is one record, db, with the fields of struct JSONDatabase.    *)
(* Engine operations are operators from a store to a store (or to a        *)
(* store and a returned value); a handler is one action that runs its      *)
(* whole critical section.  A failed expect() is a panic: the handler      *)
(* stops there, the lock guard is dropped by unwinding and the store keeps *)
(* what had been written before the panic.                                 *)
(***************************************************************************)
EXTENDS Integers, Sequences, FiniteSets, TLC

VARIABLES
    db,        \* the JSONDatabase behind the lock
    resp,      \* the last operation: its name, value returned, panicked or not,
               \* and the token registry it started from
    assigned,  \* history: the ids handed out so far, per kind; with tasks also
               \* the stores left by complete requests, the store the last
               \* critical section left and the number of requests begun
    files,     \* the files db.bin and save.json
    lock,      \* the task that holds the Mutex around the store, or None
    tasks      \* the request tasks and the flush task: where each one is and
               \* what it holds in its local variables

vars == <<db, resp, assigned, files, lock, tasks>>

(***************************************************************************)
(* Bounds of the model.                                                    *)
(***************************************************************************)
MaxAdds == 2           \* rows the operations of a run add to the seeded store
MaxRemoved == 1        \* rows the operations of a run remove from it
MaxGroups == 3         \* cap on group_count
MaxReq == 2            \* longest id list of a bulk request
UsizeBits == 5          \* width of usize
MaxStudents == 4        \* students enrolled in the seeded subject besides the seeded one
MaxOccupancies == 1     \* occupancies added to a store whose students are distributed
MaxRooms == 11         \* classrooms added to the seeded store before it is listed
MaxTokens == 2         \* number of distinct session tokens
MaxCreations == 27     \* occupancies added to the seeded store, one after the other
MaxClock == 2          \* highest reading of the clock during those additions
MaxTasks == 2          \* request tasks alive at the same time
MaxServed == 2         \* requests the handler routes serve in one behaviour
MaxManaged == 3        \* requests the management routes serve in one behaviour
MaxAuthed == 4         \* requests the authenticated routes serve in one behaviour

\* Option<u32>::None
None == -1

\* a file that does not exist
Missing == [format |-> "missing"]

\* the engine on its own: no file written, nobody at the lock, no task
Quiet ==
    /\ files = [db_bin |-> Missing, save_json |-> Missing]
    /\ lock = None
    /\ tasks = << >>

(***************************************************************************)
(* Strings are sequences of characters.  Alphabet lists the characters in  *)
(* byte order, which is the order Rust's String comparison uses.           *)
(***************************************************************************)
Alphabet ==
    << " ", ".",
       "A", "B", "C", "D", "E", "F", "G", "H", "I", "J", "K", "L", "M",
       "N", "O", "P", "Q", "R", "S", "T", "U", "V", "W", "X", "Y", "Z",
       "a", "b", "c", "d", "e", "f", "g", "h", "i", "j", "k", "l", "m",
       "n", "o", "p", "q", "r", "s", "t", "u", "v", "w", "x", "y", "z",
       "é" >>

Ord(c) == CHOOSE i \in 1..Len(Alphabet) : Alphabet[i] = c

\* unidecode::unidecode on one character: transliteration to ASCII
unidecode(c) == IF c = "é" THEN "e" ELSE c

\* char::to_ascii_lowercase
to_ascii_lowercase(c) ==
    IF Ord(c) >= 3 /\ Ord(c) <= 28 THEN Alphabet[Ord(c) + 26] ELSE c

\* str::replace(" ", ".") on one character
replace_space(c) == IF c = " " THEN "." ELSE c

\* format!("{} {}", last_name, first_name), transliterated, lowercased,
\* spaces replaced by dots
username_from_name(first_name, last_name) ==
    LET s == last_name \o << " " >> \o first_name
    IN  [i \in 1..Len(s) |-> replace_space(to_ascii_lowercase(unidecode(s[i])))]

\* User::full_name
full_name(u) == u.first_name \o << " " >> \o u.last_name

\* Ord for String: lexicographic on bytes
RECURSIVE StrLeq(_, _)
StrLeq(a, b) ==
    IF a = << >> THEN TRUE
    ELSE IF b = << >> THEN FALSE
    ELSE IF Ord(Head(a)) < Ord(Head(b)) THEN TRUE
    ELSE IF Ord(Head(a)) > Ord(Head(b)) THEN FALSE
    ELSE StrLeq(Tail(a), Tail(b))

(***************************************************************************)
(* Request inputs.                                                         *)
(***************************************************************************)
\* names a create request may carry
FirstNames == { << "A" >>, << "a" >> }
LastNames == { << "B" >> }
Tokens == 1..MaxTokens
\* Vec<u32> of a bulk request
Lists(S) == UNION { [1..n -> S] : n \in 0..MaxReq }

Range(s) == { s[i] : i \in DOMAIN s }

(***************************************************************************)
(* UserKind                                                                *)
(***************************************************************************)
Administrator == [tag |-> "Administrator", class_id |-> None]
Teacher == [tag |-> "Teacher", class_id |-> None]
Student(class_id) == [tag |-> "Student", class_id |-> class_id]

NewUser(first_name, last_name, password, kind) ==
    [first_name |-> first_name, last_name |-> last_name,
     password |-> password, kind |-> kind]

\* HashMap helpers
Put(m, k, v) == [x \in DOMAIN m \cup {k} |-> IF x = k THEN v ELSE m[x]]
Without(m, ks) == [x \in DOMAIN m \ ks |-> m[x]]
Values(m) == { m[k] : k \in DOMAIN m }
EmptyMap == << >>

(***************************************************************************)
(* JSONDatabase: private insertion helpers                                 *)
(***************************************************************************)
\* an allocator that numbers a user by the count of users in the table
_user_add_count(d, user) ==
    LET username == username_from_name(user.first_name, user.last_name)
    IN  [d EXCEPT
            !.users = Put(d.users, username,
                          [id |-> Cardinality(DOMAIN d.users),
                           first_name |-> user.first_name,
                           last_name |-> user.last_name,
                           username |-> username,
                           password |-> user.password,
                           kind |-> user.kind]),
            !.next_user_id = d.next_user_id + 1]

_user_add(d, user) ==
    LET username == username_from_name(user.first_name, user.last_name)
    IN  [d EXCEPT
            !.users = Put(d.users, username,
                          [id |-> d.next_user_id,
                           first_name |-> user.first_name,
                           last_name |-> user.last_name,
                           username |-> username,
                           password |-> user.password,
                           kind |-> user.kind]),
            !.next_user_id = d.next_user_id + 1]

\* an allocator that hands out the lowest id that is free
_classroom_add_lowest(d, classroom) ==
    LET id == CHOOSE i \in 0..d.next_classroom_id :
                  /\ i \notin DOMAIN d.classrooms
                  /\ \A j \in 0..(i - 1) : j \in DOMAIN d.classrooms
    IN  [d EXCEPT
            !.classrooms = Put(d.classrooms, id,
                               [id |-> id, name |-> classroom.name,
                                capacity |-> classroom.capacity]),
            !.next_classroom_id = d.next_classroom_id + 1]

_classroom_add(d, classroom) ==
    [d EXCEPT
        !.classrooms = Put(d.classrooms, d.next_classroom_id,
                           [id |-> d.next_classroom_id,
                            name |-> classroom.name,
                            capacity |-> classroom.capacity]),
        !.next_classroom_id = d.next_classroom_id + 1]

_class_add(d, class) ==
    [d EXCEPT
        !.classes = Put(d.classes, d.next_class_id,
                        [id |-> d.next_class_id,
                         name |-> class.name,
                         level |-> class.level]),
        !.next_class_id = d.next_class_id + 1]

_subject_add(d, new_subject) ==
    [d EXCEPT
        !.subjects = Put(d.subjects, d.next_subject_id,
                         [id |-> d.next_subject_id,
                          name |-> new_subject.name,
                          class_id |-> new_subject.class_id,
                          group_count |-> 1]),
        !.subjects_teachers = Put(d.subjects_teachers, d.next_subject_teacher_id,
                         [id |-> d.next_subject_teacher_id,
                          teacher_id |-> new_subject.teacher_in_charge_id,
                          subject_id |-> d.next_subject_id,
                          in_charge |-> TRUE]),
        !.next_subject_id = d.next_subject_id + 1,
        !.next_subject_teacher_id = d.next_subject_teacher_id + 1]

\* result of an engine operation or of a handler: the store it leaves, the
\* value it returns, and whether it panicked on a failed expect()
Ok(d, r) == [db |-> d, ret |-> r, panic |-> FALSE]
Panic(d) == [db |-> d, ret |-> FALSE, panic |-> TRUE]

set_dirty(d) == [d EXCEPT !.dirty = TRUE]

\* the rows of subjects_teachers for (subject_id, teacher_id)
TeachesRows(d, subject_id, teacher_id) ==
    { k \in DOMAIN d.subjects_teachers :
        /\ d.subjects_teachers[k].subject_id = subject_id
        /\ d.subjects_teachers[k].teacher_id = teacher_id }

\* in_charge: Option<bool> as a set: {} is None, {b} is Some(b)
NoChange == {}
Some(b) == {b}

\* an assignment that inserts without looking for an existing row
_set_teaches_insert(d, subject_id, teacher_id, in_charge) ==
    [d EXCEPT
        !.subjects_teachers = Put(d.subjects_teachers, d.next_subject_teacher_id,
            [id |-> d.next_subject_teacher_id,
             teacher_id |-> teacher_id,
             subject_id |-> subject_id,
             in_charge |-> (TRUE \in in_charge)]),
        !.next_subject_teacher_id = d.next_subject_teacher_id + 1]

\* .find() on a HashMap iterator returns some matching row
_set_teaches(d, subject_id, teacher_id, in_charge) ==
    IF TeachesRows(d, subject_id, teacher_id) # {}
    THEN LET k == CHOOSE k \in TeachesRows(d, subject_id, teacher_id) : TRUE
         IN  IF in_charge = NoChange THEN d
             ELSE [d EXCEPT !.subjects_teachers[k].in_charge = (TRUE \in in_charge)]
    ELSE [d EXCEPT
            !.subjects_teachers = Put(d.subjects_teachers, d.next_subject_teacher_id,
                [id |-> d.next_subject_teacher_id,
                 teacher_id |-> teacher_id,
                 subject_id |-> subject_id,
                 in_charge |-> (TRUE \in in_charge)]),
            !.next_subject_teacher_id = d.next_subject_teacher_id + 1]

_unset_teaches(d, subject_id, teacher_id) ==
    IF TeachesRows(d, subject_id, teacher_id) # {}
    THEN LET k == CHOOSE k \in TeachesRows(d, subject_id, teacher_id) : TRUE
         IN  Ok([d EXCEPT !.subjects_teachers = Without(d.subjects_teachers, {k})], TRUE)
    ELSE Ok(d, FALSE)

\* Option<&User>, as a set with at most one element
user_get_by_id(d, id) == { u \in Values(d.users) : u.id = id }

user_get_teacher_by_id(d, id) ==
    { u \in user_get_by_id(d, id) : u.kind.tag = "Teacher" }

user_get_student_by_id(d, id) ==
    { u \in user_get_by_id(d, id) : u.kind.tag = "Student" }

teacher_teaches(d, teacher_id, subject_id) ==
    \E k \in DOMAIN d.subjects_teachers :
        /\ d.subjects_teachers[k].teacher_id = teacher_id
        /\ d.subjects_teachers[k].subject_id = subject_id

teacher_in_charge(d, teacher_id, subject_id) ==
    \E k \in DOMAIN d.subjects_teachers :
        /\ d.subjects_teachers[k].teacher_id = teacher_id
        /\ d.subjects_teachers[k].subject_id = subject_id
        /\ d.subjects_teachers[k].in_charge

\* the student ids of the rows of a subject
SubjectStudentIds(d, subject_id) ==
    { d.subjects_students[k].student_id :
        k \in { j \in DOMAIN d.subjects_students :
                    d.subjects_students[j].subject_id = subject_id } }

\* subject_students panics ("user should exist") when a row names no user
subject_students_panics(d, subject_id) ==
    \E id \in SubjectStudentIds(d, subject_id) : user_get_by_id(d, id) = {}

subject_students(d, subject_id) ==
    UNION { user_get_by_id(d, id) : id \in SubjectStudentIds(d, subject_id) }

(***************************************************************************)
(* Group distribution (db/src/lib.rs)                                      *)
(***************************************************************************)
RECURSIVE group_numbers_loop(_, _, _, _)
group_numbers_loop(remaining, index, groups, group_count) ==
    IF remaining > 0
    THEN group_numbers_loop(remaining - 1,
                            IF index + 1 = group_count THEN 0 ELSE index + 1,
                            [groups EXCEPT ![index + 1] = @ + 1],
                            group_count)
    ELSE groups

\* old_group_numbers: equal shares, the rest of the students in the last group
group_numbers_old(student_count, group_count) ==
    [i \in 1..group_count |->
        IF i = group_count
        THEN student_count - (group_count - 1) * (student_count \div group_count)
        ELSE student_count \div group_count]

\* sizes of the groups, group k at position k + 1
group_numbers(student_count, group_count) ==
    group_numbers_loop(student_count, 0, [i \in 1..group_count |-> 0], group_count)

RECURSIVE groups_loop(_, _)
groups_loop(numbers, index) ==
    IF index > Len(numbers) THEN << >>
    ELSE [i \in 1..numbers[index] |-> index - 1] \o groups_loop(numbers, index + 1)

\* group numbers dealt one student at a time: [0, 1, 2, 0, 1, 2, 0, 1, 2]
groups_dealt(student_count, group_count) ==
    [i \in 1..student_count |-> (i - 1) % group_count]

\* the group number of each student position: [0, 0, 0, 1, 1, 1, 2, 2, 2]
groups(student_count, group_count) ==
    groups_loop(group_numbers(student_count, group_count), 1)

\* The orders students.sort_by_key(full_name) can produce: the sort is
\* stable, and the order it starts from is a HashMap iteration order, so
\* students with equal full names can come out in any order.
SortedStudentIds(d, subject_id) ==
    LET ids == SubjectStudentIds(d, subject_id)
        name(id) == full_name(CHOOSE u \in user_get_by_id(d, id) : TRUE)
    IN  { o \in [1..Cardinality(ids) -> ids] :
            /\ Range(o) = ids
            /\ \A i \in DOMAIN o : \A j \in DOMAIN o :
                   i < j => StrLeq(name(o[i]), name(o[j])) }

_distribute_subject_groups(d, subject_id, student_ids) ==
    IF subject_id \notin DOMAIN d.subjects THEN Panic(d)
    ELSE IF subject_students_panics(d, subject_id) THEN Panic(d)
    ELSE LET g == groups(Len(student_ids), d.subjects[subject_id].group_count)
             pos(id) == CHOOSE i \in DOMAIN student_ids : student_ids[i] = id
         IN  Ok([d EXCEPT !.subjects_students =
                    [k \in DOMAIN d.subjects_students |->
                        LET row == d.subjects_students[k]
                        IN  IF row.subject_id = subject_id
                            THEN [row EXCEPT !.group_number = g[pos(row.student_id)]]
                            ELSE row]], TRUE)

_subject_add_student(d, subject_id, student_id) ==
    IF \E k \in DOMAIN d.subjects_students :
           /\ d.subjects_students[k].subject_id = subject_id
           /\ d.subjects_students[k].student_id = student_id
    THEN Ok(d, FALSE)
    ELSE Ok([d EXCEPT
                !.subjects_students = Put(d.subjects_students, d.next_subject_students_id,
                    [id |-> d.next_subject_students_id,
                     student_id |-> student_id,
                     subject_id |-> subject_id,
                     group_number |-> 0]),
                !.next_subject_students_id = d.next_subject_students_id + 1], TRUE)

(***************************************************************************)
(* Occupancies and the audit log                                           *)
(***************************************************************************)
ModificationCap == 25

\* a log that grows at its end
PushBack(list, modification) ==
    SubSeq(Append(list, modification), 1,
           IF Len(list) + 1 > ModificationCap THEN ModificationCap ELSE Len(list) + 1)

\* vec.insert(0, modification); vec.truncate(25)
PushFront(list, modification) ==
    SubSeq(<< modification >> \o list, 1,
           IF Len(list) + 1 > ModificationCap THEN ModificationCap ELSE Len(list) + 1)

\* a log that is never cut
_add_modification_uncut(d, teacher_id, students, modification) ==
    LET affected == {teacher_id} \cup students
        old(uid) == IF uid \in DOMAIN d.modifications THEN d.modifications[uid] ELSE << >>
    IN  [d EXCEPT !.modifications =
            [uid \in DOMAIN d.modifications \cup affected |->
                IF uid \notin affected THEN d.modifications[uid]
                ELSE << modification >> \o old(uid)]]

\* affected_users is the teacher followed by the students; a user listed
\* twice gets the record twice
_add_modification(d, teacher_id, students, modification) ==
    LET affected == {teacher_id} \cup students
        old(uid) == IF uid \in DOMAIN d.modifications THEN d.modifications[uid] ELSE << >>
        once(uid) == PushFront(old(uid), modification)
    IN  [d EXCEPT !.modifications =
            [uid \in DOMAIN d.modifications \cup affected |->
                IF uid \notin affected THEN d.modifications[uid]
                ELSE IF uid = teacher_id /\ uid \in students
                     THEN PushFront(once(uid), modification)
                     ELSE once(uid)]]

_add_occupancy(d, occupancy, now) ==
    LET rows == IF occupancy.subject_id = None THEN {}
                ELSE { r \in Values(d.subjects_students) :
                           r.subject_id = occupancy.subject_id }
        students == IF occupancy.group_number = None
                    THEN { r.student_id : r \in rows }
                    ELSE { r.student_id :
                             r \in { x \in rows : x.group_number = occupancy.group_number } }
        modification ==
            [modification_type |-> "Create",
             modification_timestamp |-> now,
             occupancy |->
               [subject_id |-> occupancy.subject_id,
                class_id |-> IF occupancy.subject_id = None THEN None
                             ELSE d.subjects[occupancy.subject_id].class_id,
                occupancy_type |-> occupancy.occupancy_type,
                occupancy_start |-> occupancy.start_datetime,
                occupancy_end |-> occupancy.end_datetime,
                previous_occupancy_start |-> occupancy.start_datetime,
                previous_occupancy_end |-> occupancy.end_datetime]]
    IN  IF \E r \in rows : user_get_student_by_id(d, r.student_id) = {}
        THEN Panic(d)
        ELSE IF occupancy.subject_id # None /\ occupancy.subject_id \notin DOMAIN d.subjects
        THEN Panic(d)
        ELSE Ok([_add_modification(d, occupancy.teacher_id, students, modification) EXCEPT
                    !.occupancies = Put(d.occupancies, d.next_occupancy_id,
                        [id |-> d.next_occupancy_id,
                         classroom_id |-> occupancy.classroom_id,
                         group_number |-> occupancy.group_number,
                         subject_id |-> occupancy.subject_id,
                         teacher_id |-> occupancy.teacher_id,
                         start_datetime |-> occupancy.start_datetime,
                         end_datetime |-> occupancy.end_datetime,
                         occupancy_type |-> occupancy.occupancy_type,
                         name |-> occupancy.name]),
                    !.next_occupancy_id = d.next_occupancy_id + 1], TRUE)

(***************************************************************************)
(* Seeding (db/src/seed.rs and JSONDatabase::seed)                         *)
(***************************************************************************)
\* The two read-only feeds: calendar events and student names.
SeedEvents ==
    << [location |-> << "R" >>, subject |-> << "M" >>,
        professor |-> [last_name |-> << "L" >>, first_name |-> << "T" >>],
        start |-> 0, end |-> 1, event_type |-> "CM", name |-> << "c" >>],
       [location |-> << "R" >>, subject |-> << "M" >>,
        professor |-> [last_name |-> << "L" >>, first_name |-> << "T" >>],
        start |-> 1, end |-> 2, event_type |-> "TD", name |-> << "d" >>] >>

\* (the three built-in test accounts already include one student)
SeedStudentNames ==
    << >>

\* Iterator::unique: the first occurrence of each item, in order
RECURSIVE unique(_)
unique(s) ==
    IF s = << >> THEN << >>
    ELSE LET init == unique(SubSeq(s, 1, Len(s) - 1))
         IN  IF s[Len(s)] \in Range(init) THEN init ELSE Append(init, s[Len(s)])

test_users ==
    << NewUser(<< "A", "d", "m", "i", "n" >>, << "U", "s", "e", "r" >>,
               << "u", "s", "e", "r", ".", "a", "d", "m", "i", "n" >>, Administrator),
       NewUser(<< "T", "e", "a", "c", "h", "e", "r" >>, << "U", "s", "e", "r" >>,
               << "u", "s", "e", "r", ".", "t", "e", "a", "c", "h", "e", "r" >>, Teacher),
       NewUser(<< "S", "t", "u", "d", "e", "n", "t" >>, << "U", "s", "e", "r" >>,
               << "u", "s", "e", "r", ".", "s", "t", "u", "d", "e", "n", "t" >>, Student(0)) >>

test_classrooms(events) ==
    LET names == unique([i \in DOMAIN events |-> events[i].location])
    IN  [i \in DOMAIN names |-> [name |-> names[i], capacity |-> 50]]

test_teachers(events) ==
    LET teachers == unique([i \in DOMAIN events |-> events[i].professor])
    IN  [i \in DOMAIN teachers |->
            NewUser(teachers[i].first_name, teachers[i].last_name,
                    username_from_name(teachers[i].first_name, teachers[i].last_name),
                    Teacher)]

test_classes ==
    << [name |-> << "L", "3" >>, level |-> "L3"] >>

test_students(names) ==
    [i \in DOMAIN names |->
        NewUser(names[i].first_name, names[i].last_name,
                username_from_name(names[i].first_name, names[i].last_name),
                Student(0))]

test_subjects(events) ==
    LET names == unique([i \in DOMAIN events |-> events[i].subject])
    IN  [i \in DOMAIN names |->
            [name |-> names[i], class_id |-> 0, teacher_in_charge_id |-> 3 + (i - 1)]]

\* the occupancies seed_db derives from the events
seed_occupancies(events) ==
    [i \in DOMAIN events |->
        [classroom_name |-> events[i].location,
         group_number |-> IF events[i].event_type \in {"CM", "Projet"} THEN None ELSE 0,
         start_datetime |-> events[i].start,
         end_datetime |-> events[i].end,
         occupancy_type |-> events[i].event_type,
         subject_name |-> events[i].subject,
         teacher_first_name |-> events[i].professor.first_name,
         teacher_last_name |-> events[i].professor.last_name,
         name |-> events[i].name]]

add_student_link(d, pair) == _subject_add_student(d, pair[2], pair[1]).db

seed_occupancy(d, o) ==
    LET classroom_id == CHOOSE k \in DOMAIN d.classrooms :
                            d.classrooms[k].name = o.classroom_name
        subject_id == CHOOSE k \in DOMAIN d.subjects :
                            d.subjects[k].name = o.subject_name
        teacher == CHOOSE u \in Values(d.users) :
                            /\ u.kind.tag = "Teacher"
                            /\ u.first_name = o.teacher_first_name
                            /\ u.last_name = o.teacher_last_name
    IN  _add_occupancy(d,
            [classroom_id |-> classroom_id,
             group_number |-> o.group_number,
             subject_id |-> subject_id,
             teacher_id |-> teacher.id,
             start_datetime |-> o.start_datetime,
             end_datetime |-> o.end_datetime,
             occupancy_type |-> o.occupancy_type,
             name |-> o.name], o.now).db

\* The orders in which the nested loops over users.values() and
\* subjects.values() can visit the (student, subject) pairs: the students in
\* one HashMap iteration order, and for each of them the subjects in one.
LinkOrders(d) ==
    LET students == { u.id : u \in { x \in Values(d.users) : x.kind.tag = "Student" } }
        subjects == DOMAIN d.subjects
        ns == Cardinality(students)
        nj == Cardinality(subjects)
    IN  { [i \in 1..(ns * nj) |->
              << so[((i - 1) \div nj) + 1], jo[((i - 1) % nj) + 1] >>] :
            so \in { o \in [1..ns -> students] : Range(o) = students },
            jo \in { o \in [1..nj -> subjects] : Range(o) = subjects } }

\* the call seed makes for one item of the iterator named what
add_one(what, d, x) ==
    CASE what = "classrooms" -> _classroom_add(d, x)
      [] what = "users" -> _user_add(d, x)
      [] what = "classes" -> _class_add(d, x)
      [] what = "subjects" -> _subject_add(d, x)
      [] what = "links" -> add_student_link(d, x)
      [] what = "occupancies" -> seed_occupancy(d, x)

RECURSIVE AddAll(_, _, _)
\* items.for_each(|x| self.add(x))
AddAll(what, d, items) ==
    IF items = << >> THEN d
    ELSE AddAll(what, add_one(what, d, Head(items)), Tail(items))

\* the store once the entities are in and before the links are made
seed_entities(d, users, classrooms, classes, subjects) ==
    AddAll("subjects",
        AddAll("classes",
            AddAll("users",
                AddAll("classrooms", d, classrooms),
                users),
            classes),
        subjects)

seed(d, users, classrooms, classes, subjects, occupancies, links, now) ==
    LET entities == seed_entities(d, users, classrooms, classes, subjects)
        linked == AddAll("links", entities, links)
        timed == [i \in DOMAIN occupancies |->
                    [classroom_name |-> occupancies[i].classroom_name,
                     group_number |-> occupancies[i].group_number,
                     start_datetime |-> occupancies[i].start_datetime,
                     end_datetime |-> occupancies[i].end_datetime,
                     occupancy_type |-> occupancies[i].occupancy_type,
                     subject_name |-> occupancies[i].subject_name,
                     teacher_first_name |-> occupancies[i].teacher_first_name,
                     teacher_last_name |-> occupancies[i].teacher_last_name,
                     name |-> occupancies[i].name,
                     now |-> now]]
    IN  set_dirty(AddAll("occupancies", linked, timed))

seed_db(d, links, now) ==
    seed(d,
         test_users \o test_teachers(SeedEvents) \o test_students(SeedStudentNames),
         test_classrooms(SeedEvents),
         test_classes,
         test_subjects(SeedEvents),
         seed_occupancies(SeedEvents),
         links, now)

\* the store reset() hands to seed_db
Cleared ==
    [dirty |-> TRUE,
     filename |-> "db.bin",
     delay |-> 0,
     users |-> EmptyMap,
     tokens |-> {},
     classrooms |-> EmptyMap,
     classes |-> EmptyMap,
     subjects |-> EmptyMap,
     subjects_teachers |-> EmptyMap,
     subjects_students |-> EmptyMap,
     occupancies |-> EmptyMap,
     modifications |-> EmptyMap,
     next_user_id |-> 0,
     next_classroom_id |-> 0,
     next_class_id |-> 0,
     next_subject_id |-> 0,
     next_subject_teacher_id |-> 0,
     next_subject_students_id |-> 0,
     next_occupancy_id |-> 0]

\* the link orders of a reset: those of the seeded entities
ResetLinkOrders ==
    LinkOrders(seed_entities(Cleared,
        test_users \o test_teachers(SeedEvents) \o test_students(SeedStudentNames),
        test_classrooms(SeedEvents), test_classes, test_subjects(SeedEvents)))

reset(d, links, now) == seed_db([Cleared EXCEPT !.filename = d.filename], links, now)

(***************************************************************************)
(* BiMap<String, String>: a set of (token, username) pairs in which no     *)
(* token and no username occurs twice.                                     *)
(***************************************************************************)
\* BiMap::insert overwrites the pair of the same left and the pair of the
\* same right value
bimap_insert(m, left, right) ==
    { p \in m : p[1] # left /\ p[2] # right } \cup { << left, right >> }

bimap_remove_by_left(m, left) == { p \in m : p[1] # left }

\* Option<&R> as a set
bimap_get_by_left(m, left) == { p[2] : p \in { q \in m : q[1] = left } }

(***************************************************************************)
(* Search: _search, contains_query, truncate.  An Option<T> argument is a  *)
(* set, {} for None and {x} for Some(x); a closure is the function it      *)
(* computes on the rows.                                                   *)
(***************************************************************************)
PAGE_SIZE == 10

UsizeModulus == 2 ^ UsizeBits

\* the characters str::trim removes
IsWhitespace(c) == c = " "

RECURSIVE trim_start(_)
trim_start(s) ==
    IF s # << >> /\ IsWhitespace(Head(s)) THEN trim_start(Tail(s)) ELSE s

RECURSIVE trim_end(_)
trim_end(s) ==
    IF s # << >> /\ IsWhitespace(s[Len(s)])
    THEN trim_end(SubSeq(s, 1, Len(s) - 1))
    ELSE s

trim(s) == trim_end(trim_start(s))

\* str::contains
contains(name, query) ==
    \E i \in 0..(Len(name) - Len(query)) : SubSeq(name, i + 1, i + Len(query)) = query

truncate(s, max_chars) == IF Len(s) <= max_chars THEN s ELSE SubSeq(s, 1, max_chars)

\* the closure |s| unidecode(s.trim()).to_ascii_lowercase()
normalize(s) ==
    LET t == trim(s) IN [i \in 1..Len(t) |-> to_ascii_lowercase(unidecode(t[i]))]

\* the filter contains_query returns, applied to a row whose property is name
contains_query(query, name) ==
    IF query = {} THEN TRUE
    ELSE \E q \in query : contains(normalize(name), normalize(truncate(q, 50)))

\* the result of a search: (total, results), or a panic
Found(total, results) == [total |-> total, results |-> results, panic |-> FALSE]
SearchPanic == [total |-> 0, results |-> << >>, panic |-> TRUE]

RECURSIVE search_loop(_, _, _, _, _, _)
\* for row in collection { ... }
search_loop(rows, keep, to_skip, total, skipped, results) ==
    IF rows = << >> THEN Found(total, results)
    ELSE IF ~ keep[Head(rows)]
    THEN search_loop(Tail(rows), keep, to_skip, total, skipped, results)
    ELSE IF skipped < to_skip
    THEN search_loop(Tail(rows), keep, to_skip, total + 1, skipped + 1, results)
    ELSE IF Len(results) < PAGE_SIZE
    THEN search_loop(Tail(rows), keep, to_skip, total + 1, skipped,
                     Append(results, Head(rows)))
    ELSE search_loop(Tail(rows), keep, to_skip, total + 1, skipped, results)

\* a search whose total counts the rows of the page only
_search_page_total(collection, property, page, query, custom_filter, overflow_checks) ==
    LET keep == [row \in Range(collection) |->
                    contains_query(query, property[row]) /\ custom_filter[row]]
        found == search_loop(collection, keep,
                             ((CHOOSE p \in page : TRUE) - 1) * PAGE_SIZE % UsizeModulus,
                             0, 0, << >>)
    IN  IF page = {}
        THEN LET vec == SelectSeq(collection, LAMBDA row : keep[row])
             IN  Found(Len(vec), vec)
        ELSE Found(Len(found.results), found.results)

\* collection is the iterator, in the order it yields the rows;
\* overflow_checks says whether the build panics on arithmetic overflow or
\* wraps
_search(collection, property, page, query, custom_filter, overflow_checks) ==
    LET keep == [row \in Range(collection) |->
                    contains_query(query, property[row]) /\ custom_filter[row]]
    IN  IF page = {}
        THEN LET vec == SelectSeq(collection, LAMBDA row : keep[row])
             IN  Found(Len(vec), vec)
        ELSE LET p == CHOOSE x \in page : TRUE
                 exact == (p - 1) * PAGE_SIZE
                 to_skip == exact % UsizeModulus
             IN  IF overflow_checks /\ (exact < 0 \/ exact >= UsizeModulus)
                 THEN SearchPanic
                 ELSE search_loop(collection, keep, to_skip, 0, 0, << >>)

(***************************************************************************)
(* impl Database for JSONDatabase                                          *)
(***************************************************************************)
\* values is self.classrooms.values() in the order the iteration yields it
classroom_list(d, values, page, query, overflow_checks) ==
    _search(values, [c \in Range(values) |-> c.name], {page}, query,
            [c \in Range(values) |-> TRUE], overflow_checks)

\* values is self.users.values() in the order the iteration yields it;
\* filter is the caller's closure
user_list(d, values, page, query, filter, overflow_checks) ==
    _search(values, [u \in Range(values) |-> full_name(u)], page, query,
            filter, overflow_checks)

\* a page number taken as it was sent, 1 when none was sent
normalized_page_number_raw(page) ==
    IF page = {} THEN 1 ELSE CHOOSE v \in page : TRUE

\* PaginatedQueryableListRequest::normalized_page_number; page is the
\* Option<usize> of the request, as a set
normalized_page_number(page) ==
    IF page = {} THEN 1
    ELSE LET v == CHOOSE x \in page : TRUE
         IN  IF v >= 1 THEN v ELSE 1

\* routes/classroom.rs list
route_classroom_list(d, values, request, overflow_checks) ==
    classroom_list(d, values, normalized_page_number(request.page), request.query,
                   overflow_checks)

delay_set(d, delay) == set_dirty([d EXCEPT !.delay = delay])

\* a login that registers the token before it looks at the password
auth_login_eager(d, username, password, token) ==
    IF username \notin DOMAIN d.users THEN Ok(d, FALSE)
    ELSE LET d1 == set_dirty([d EXCEPT !.tokens = bimap_insert(d.tokens, token, username)])
         IN  IF password # d.users[username].password THEN Ok(d1, FALSE)
             ELSE Ok(d1, TRUE)

auth_login(d, username, password, token) ==
    IF username \notin DOMAIN d.users THEN Ok(d, FALSE)
    ELSE IF password # d.users[username].password THEN Ok(d, FALSE)
    ELSE Ok(set_dirty([d EXCEPT !.tokens = bimap_insert(d.tokens, token, username)]), TRUE)

\* a logout that reports the token and leaves it registered
auth_logout_keep(d, token) ==
    Ok(set_dirty(d), \E p \in d.tokens : p[1] = token)

auth_logout(d, token) ==
    Ok(set_dirty([d EXCEPT !.tokens = bimap_remove_by_left(d.tokens, token)]),
       \E p \in d.tokens : p[1] = token)

auth_get_user(d, token) ==
    { d.users[username] :
        username \in { n \in bimap_get_by_left(d.tokens, token) : n \in DOMAIN d.users } }

classroom_add(d, classroom) == set_dirty(_classroom_add(d, classroom))

classroom_remove(d, classrooms) ==
    IF ~ (\A i \in DOMAIN classrooms : classrooms[i] \in DOMAIN d.classrooms)
    THEN Ok(d, FALSE)
    ELSE Ok(set_dirty([d EXCEPT !.classrooms = Without(d.classrooms, Range(classrooms))]),
            TRUE)

user_add(d, user) == set_dirty(_user_add(d, user))

user_get(d, username) ==
    IF username \in DOMAIN d.users THEN { d.users[username] } ELSE {}

user_update(d, user) ==
    set_dirty([d EXCEPT !.users = Put(d.users, user.username, user)])

\* a removal that drops the users it finds before it reports a missing id
user_remove_partial(d, users) ==
    LET all_users_ids == { u.id : u \in Values(d.users) }
        gone == [d EXCEPT !.users = Without(d.users,
                    { n \in DOMAIN d.users : d.users[n].id \in Range(users) })]
    IN  IF ~ (\A i \in DOMAIN users : users[i] \in all_users_ids)
        THEN Ok(gone, FALSE)
        ELSE Ok(set_dirty(gone), TRUE)

\* a removal of users that leaves their tokens in the registry
user_remove_keep_tokens(d, users) ==
    LET all_users_ids == { u.id : u \in Values(d.users) }
    IN  IF ~ (\A i \in DOMAIN users : users[i] \in all_users_ids)
        THEN Ok(d, FALSE)
        ELSE Ok(set_dirty([d EXCEPT
                    !.users = Without(d.users,
                                { n \in DOMAIN d.users : d.users[n].id \in Range(users) })]),
                TRUE)

user_remove(d, users) ==
    LET all_users_ids == { u.id : u \in Values(d.users) }
        removed_usernames == { u.username :
                                 u \in { x \in Values(d.users) : x.id \in Range(users) } }
    IN  IF ~ (\A i \in DOMAIN users : users[i] \in all_users_ids)
        THEN Ok(d, FALSE)
        ELSE Ok(set_dirty([d EXCEPT
                    !.tokens = { p \in d.tokens : p[2] \notin removed_usernames },
                    !.users = Without(d.users,
                                { n \in DOMAIN d.users : d.users[n].id \in Range(users) })]),
                TRUE)

class_add(d, class) == set_dirty(_class_add(d, class))

class_remove(d, classes) ==
    IF ~ (\A i \in DOMAIN classes : classes[i] \in DOMAIN d.classes)
    THEN Ok(d, FALSE)
    ELSE Ok(set_dirty([d EXCEPT !.classes = Without(d.classes, Range(classes))]), TRUE)

subject_add(d, subject) == set_dirty(_subject_add(d, subject))

subject_remove(d, subjects) ==
    IF ~ (\A i \in DOMAIN subjects : subjects[i] \in DOMAIN d.subjects)
    THEN Ok(d, FALSE)
    ELSE Ok(set_dirty([d EXCEPT !.subjects = Without(d.subjects, Range(subjects))]), TRUE)

subject_get(d, id) == IF id \in DOMAIN d.subjects THEN { d.subjects[id] } ELSE {}

class_get(d, id) == IF id \in DOMAIN d.classes THEN { d.classes[id] } ELSE {}

classroom_get(d, id) == IF id \in DOMAIN d.classrooms THEN { d.classrooms[id] } ELSE {}

subject_add_student(d, subject_id, student_id) ==
    LET r == _subject_add_student(d, subject_id, student_id)
    IN  IF r.ret THEN set_dirty(r.db) ELSE r.db

\* an update that names the new teacher in charge and leaves the old one
\* in charge as well
subject_update_keep(d, id, update) ==
    IF id \notin DOMAIN d.subjects THEN Ok(d, FALSE)
    ELSE IF update.teacher_in_charge_id = None THEN Ok(d, TRUE)
    ELSE Ok(set_dirty(_set_teaches(d, id, update.teacher_in_charge_id, Some(TRUE))), TRUE)

\* SubjectUpdate: class_id is None or an id, name and teacher_in_charge_id
\* likewise; found = ret, the fields already written stay written when the
\* lookup of the teacher in charge fails
subject_update(d, id, update) ==
    IF id \notin DOMAIN d.subjects THEN Ok(d, FALSE)
    ELSE LET d1 == IF update.class_id # None
                   THEN [d EXCEPT !.subjects[id].class_id = update.class_id] ELSE d
             d2 == IF update.name # {}
                   THEN [d1 EXCEPT !.subjects[id].name = CHOOSE n \in update.name : TRUE]
                   ELSE d1
             olds == { d.subjects_teachers[k].teacher_id :
                         k \in { j \in DOMAIN d.subjects_teachers :
                                   /\ d.subjects_teachers[j].subject_id = id
                                   /\ teacher_in_charge(d, d.subjects_teachers[j].teacher_id, id) } }
             updated == update.class_id # None \/ update.name # {}
                            \/ update.teacher_in_charge_id # None
         IN  IF update.teacher_in_charge_id = None
             THEN Ok(IF updated THEN set_dirty(d2) ELSE d2, TRUE)
             ELSE IF olds = {} THEN Panic(d2)
             ELSE LET old_teacher_in_charge_id == CHOOSE t \in olds : TRUE
                  IN  Ok(set_dirty(
                            _set_teaches(
                                _set_teaches(d2, id, old_teacher_in_charge_id, Some(FALSE)),
                                id, update.teacher_in_charge_id, Some(TRUE))), TRUE)

subject_add_group(d, subject_id) ==
    IF subject_id \notin DOMAIN d.subjects THEN Panic(d)
    ELSE Ok(set_dirty([d EXCEPT !.subjects[subject_id].group_count = @ + 1]), TRUE)

\* a removal that takes the last group as well
subject_remove_group_last(d, subject_id) ==
    IF subject_id \notin DOMAIN d.subjects THEN Panic(d)
    ELSE IF d.subjects[subject_id].group_count >= 1
         THEN Ok(set_dirty([d EXCEPT !.subjects[subject_id].group_count = @ - 1]), TRUE)
         ELSE Ok(d, FALSE)

subject_remove_group(d, subject_id) ==
    IF subject_id \notin DOMAIN d.subjects THEN Panic(d)
    ELSE IF d.subjects[subject_id].group_count >= 2
         THEN Ok(set_dirty([d EXCEPT !.subjects[subject_id].group_count = @ - 1]), TRUE)
         ELSE Ok(d, FALSE)

teacher_set_teaches(d, teacher_id, subject_id) ==
    set_dirty(_set_teaches(d, subject_id, teacher_id, NoChange))

teacher_unset_teaches(d, teacher_id, subject_id) ==
    set_dirty(_unset_teaches(d, subject_id, teacher_id).db)

distribute_subject_groups(d, subject_id, student_ids) ==
    LET r == _distribute_subject_groups(d, subject_id, student_ids)
    IN  IF r.panic THEN r ELSE Ok(set_dirty(r.db), TRUE)

occupancies_remove(d, occupancies) ==
    IF ~ (\A i \in DOMAIN occupancies : occupancies[i] \in DOMAIN d.occupancies)
    THEN Ok(d, FALSE)
    ELSE Ok(set_dirty([d EXCEPT !.occupancies = Without(d.occupancies, Range(occupancies))]),
            TRUE)

occupancies_add(d, occupancy, now) ==
    LET r == _add_occupancy(d, occupancy, now)
    IN  IF r.panic THEN r ELSE Ok(set_dirty(r.db), TRUE)

\* a check for any overlap of the occupancy with the window
classroom_free_overlap(d, classroom_id, from, to) ==
    ~ \E o \in Values(d.occupancies) :
        o.classroom_id = classroom_id /\ o.start_datetime <= to /\ o.end_datetime >= from

classroom_free(d, classroom_id, from, to) ==
    ~ \E o \in Values(d.occupancies) :
        o.classroom_id = classroom_id /\ o.start_datetime >= from /\ o.end_datetime <= to

teacher_free(d, teacher_id, from, to) ==
    ~ \E o \in Values(d.occupancies) :
        o.teacher_id = teacher_id /\ o.start_datetime >= from /\ o.end_datetime <= to

\* the subject of occupancy o: o.subject_id.and_then(|sid| self.subject_get(sid))
OccupancySubject(d, o) ==
    IF o.subject_id = None THEN {} ELSE subject_get(d, o.subject_id)

class_free(d, class_id, from, to) ==
    ~ \E o \in Values(d.occupancies) :
        \E subject \in OccupancySubject(d, o) :
            subject.class_id = class_id /\ o.start_datetime >= from /\ o.end_datetime <= to

\* a check that does not look at the class
group_free_any_class(d, class_id, subject_id, group_number, from, to) ==
    ~ \E o \in Values(d.occupancies) :
        \E subject \in OccupancySubject(d, o) :
            /\ subject.id = subject_id
            /\ o.start_datetime >= from
            /\ o.end_datetime <= to
            /\ o.group_number = group_number

group_free(d, class_id, subject_id, group_number, from, to) ==
    ~ \E o \in Values(d.occupancies) :
        \E subject \in OccupancySubject(d, o) :
            /\ subject.id = subject_id
            /\ subject.class_id = class_id
            /\ o.start_datetime >= from
            /\ o.end_datetime <= to
            /\ o.group_number = group_number

(***************************************************************************)
(* The state after construction: no snapshot file on first start, so       *)
(* JSONDatabase::new resets and seeds.                                     *)
(***************************************************************************)
\* the ids of the live rows, per kind
Live(d) ==
    [users |-> { u.id : u \in Values(d.users) },
     classrooms |-> DOMAIN d.classrooms,
     classes |-> DOMAIN d.classes,
     subjects |-> DOMAIN d.subjects,
     subjects_teachers |-> DOMAIN d.subjects_teachers,
     subjects_students |-> DOMAIN d.subjects_students,
     occupancies |-> DOMAIN d.occupancies]

Kinds == DOMAIN Live(Cleared)

\* the clock readings of SystemTime::now()
Clock == {0}

Init ==
    /\ \E links \in ResetLinkOrders : db = reset(Cleared, links, 0)
    /\ resp = [op |-> "new", ret |-> TRUE, panic |-> FALSE, tokens |-> {}]
    /\ assigned = [ever |-> Live(db), since_reset |-> Live(db)]
    /\ Quiet

(***************************************************************************)
(* Request handlers (src/routes).  Each is the whole critical section of   *)
(* the handler; ret is TRUE for a success response and FALSE for a         *)
(* failure response.                                                       *)
(***************************************************************************)
route_classroom_create(d, request) == Ok(classroom_add(d, request), TRUE)

route_classroom_delete(d, request) == classroom_remove(d, request)

route_class_create(d, request) == Ok(class_add(d, request), TRUE)

route_class_delete(d, request) == class_remove(d, request)

route_subject_create(d, request) ==
    IF class_get(d, request.class_id) = {} THEN Ok(d, FALSE)
    ELSE Ok(subject_add(d, request), TRUE)

route_subject_delete(d, request) == subject_remove(d, request)

route_subject_update(d, id, request) ==
    IF request.teacher_in_charge_id # None
          /\ ~ teacher_teaches(d, request.teacher_in_charge_id, id)
    THEN Ok(d, FALSE)
    ELSE IF request.class_id # None /\ class_get(d, request.class_id) = {}
    THEN Ok(d, FALSE)
    ELSE subject_update(d, id, request)

RECURSIVE set_teaches_all(_, _, _)
\* for id in &request { db.teacher_set_teaches(*id, subject_id) }
set_teaches_all(d, request, subject_id) ==
    IF request = << >> THEN d
    ELSE set_teaches_all(teacher_set_teaches(d, Head(request), subject_id),
                         Tail(request), subject_id)

route_subject_teacher_post(d, subject_id, request) ==
    IF subject_get(d, subject_id) = {} THEN Ok(d, FALSE)
    ELSE IF ~ (\A i \in DOMAIN request : user_get_teacher_by_id(d, request[i]) # {})
    THEN Ok(d, FALSE)
    ELSE Ok(set_teaches_all(d, request, subject_id), TRUE)

RECURSIVE unset_teaches_all(_, _, _)
\* for id in &request { db.teacher_unset_teaches(*id, subject_id) }
unset_teaches_all(d, request, subject_id) ==
    IF request = << >> THEN d
    ELSE unset_teaches_all(teacher_unset_teaches(d, Head(request), subject_id),
                           Tail(request), subject_id)

route_subject_teacher_delete(d, subject_id, request) ==
    LET count_after_deletion ==
            Cardinality({ u \in Values(d.users) :
                            /\ u.kind.tag = "Teacher"
                            /\ teacher_teaches(d, u.id, subject_id)
                            /\ u.id \notin Range(request) })
    IN  IF subject_get(d, subject_id) = {} THEN Ok(d, FALSE)
        ELSE IF ~ (\A i \in DOMAIN request :
                        /\ user_get_teacher_by_id(d, request[i]) # {}
                        /\ teacher_teaches(d, request[i], subject_id)
                        /\ ~ teacher_in_charge(d, request[i], subject_id))
        THEN Ok(d, FALSE)
        ELSE IF count_after_deletion = 0 THEN Ok(d, FALSE)
        ELSE Ok(unset_teaches_all(d, request, subject_id), TRUE)

\* the order the sort in distribute_subject_groups produces, when it gets
\* that far
SortChoices(d, subject_id) ==
    IF subject_students_panics(d, subject_id) THEN { << >> }
    ELSE SortedStudentIds(d, subject_id)

route_subject_group_post(d, subject_id, student_ids) ==
    IF subject_get(d, subject_id) = {} THEN Ok(d, FALSE)
    ELSE distribute_subject_groups(subject_add_group(d, subject_id).db,
                                   subject_id, student_ids)

route_subject_group_delete(d, subject_id, student_ids) ==
    IF subject_get(d, subject_id) = {} THEN Ok(d, FALSE)
    ELSE LET r == subject_remove_group(d, subject_id)
         IN  IF ~ r.ret THEN Ok(r.db, FALSE)
             ELSE distribute_subject_groups(r.db, subject_id, student_ids)

\* TRUE when validate_new_occupancy_base returns an error response
validate_new_occupancy_base(d, subject_id, request) ==
    \/ subject_get(d, subject_id) = {}
    \/ user_get_teacher_by_id(d, request.teacher_id) = {}
    \/ ~ teacher_teaches(d, request.teacher_id, subject_id)
    \/ /\ request.classroom_id # None
       /\ \/ classroom_get(d, request.classroom_id) = {}
          \/ ~ classroom_free(d, request.classroom_id, request.start, request.end)
    \/ request.end < request.start
    \/ ~ teacher_free(d, request.teacher_id, request.start, request.end)

NewOccupancy(subject_id, group_number, request) ==
    [classroom_id |-> request.classroom_id,
     group_number |-> group_number,
     subject_id |-> subject_id,
     teacher_id |-> request.teacher_id,
     start_datetime |-> request.start,
     end_datetime |-> request.end,
     occupancy_type |-> request.occupancy_type,
     name |-> request.name]

\* a creation without a group that takes every occupancy type
route_subject_occupancies_create_any(d, subject_id, request, now) ==
    IF validate_new_occupancy_base(d, subject_id, request) THEN Ok(d, FALSE)
    ELSE IF request.occupancy_type \in {"CM", "Projet"} /\ request.classroom_id = None
    THEN Ok(d, FALSE)
    ELSE occupancies_add(d, NewOccupancy(subject_id, None, request), now)

route_subject_occupancies_create(d, subject_id, request, now) ==
    IF validate_new_occupancy_base(d, subject_id, request) THEN Ok(d, FALSE)
    ELSE IF request.occupancy_type \in {"TD", "TP"} THEN Ok(d, FALSE)
    ELSE IF request.occupancy_type \in {"CM", "Projet"} /\ request.classroom_id = None
    THEN Ok(d, FALSE)
    ELSE occupancies_add(d, NewOccupancy(subject_id, None, request), now)

route_subject_occupancies_groups_create(d, subject_id, group_number, request, now) ==
    IF validate_new_occupancy_base(d, subject_id, request) THEN Ok(d, FALSE)
    ELSE IF request.occupancy_type \notin {"TD", "TP"} THEN Ok(d, FALSE)
    ELSE IF request.classroom_id = None THEN Ok(d, FALSE)
    ELSE IF group_number >= d.subjects[subject_id].group_count THEN Ok(d, FALSE)
    ELSE occupancies_add(d, NewOccupancy(subject_id, group_number, request), now)

route_occupancy_delete(d, request) == occupancies_remove(d, request)

\* the password is ten random alphanumeric characters
route_teacher_create(d, request, password) ==
    Ok(user_add(d, NewUser(request.first_name, request.last_name, password, Teacher)),
       TRUE)

route_teacher_delete(d, request) ==
    IF ~ (\A i \in DOMAIN request : user_get_teacher_by_id(d, request[i]) # {})
    THEN Ok(d, FALSE)
    ELSE user_remove(d, request)

route_student_create(d, request, password) ==
    IF class_get(d, request.class_id) = {} THEN Ok(d, FALSE)
    ELSE Ok(user_add(d, NewUser(request.first_name, request.last_name, password,
                                Student(request.class_id))), TRUE)

route_student_delete(d, request) ==
    IF ~ (\A i \in DOMAIN request : user_get_student_by_id(d, request[i]) # {})
    THEN Ok(d, FALSE)
    ELSE user_remove(d, request)

\* StudentUpdate: each field is a set, {} when absent
route_student_update(d, id, request) ==
    IF user_get_student_by_id(d, id) = {} THEN Ok(d, FALSE)
    ELSE LET user == CHOOSE u \in user_get_student_by_id(d, id) : TRUE
             u1 == IF request.first_name # {}
                   THEN [user EXCEPT !.first_name = CHOOSE n \in request.first_name : TRUE]
                   ELSE user
             u2 == IF request.last_name # {}
                   THEN [u1 EXCEPT !.last_name = CHOOSE n \in request.last_name : TRUE]
                   ELSE u1
             u3 == IF request.class_id # {}
                   THEN [u2 EXCEPT !.kind = Student(CHOOSE c \in request.class_id : TRUE)]
                   ELSE u2
             u4 == IF request.password # {}
                   THEN [u3 EXCEPT !.password = CHOOSE n \in request.password : TRUE]
                   ELSE u3
             updated == request.first_name # {} \/ request.last_name # {}
                           \/ request.class_id # {} \/ request.password # {}
         IN  IF request.class_id # {}
                  /\ class_get(d, CHOOSE c \in request.class_id : TRUE) = {}
             THEN Ok(d, FALSE)
             ELSE Ok(IF updated THEN user_update(d, u4) ELSE d, TRUE)

route_auth_post_session(d, request, token) ==
    auth_login(d, request.username, request.password, token)

route_manage_reset(d, links, now) == Ok(reset(d, links, now), TRUE)

(***************************************************************************)
(* Actions.  Step records an operation and its outcome.                    *)
(***************************************************************************)
\* history of ids a joined with the live ids l
Merge(a, l) ==
    [users |-> a.users \cup l.users,
     classrooms |-> a.classrooms \cup l.classrooms,
     classes |-> a.classes \cup l.classes,
     subjects |-> a.subjects \cup l.subjects,
     subjects_teachers |-> a.subjects_teachers \cup l.subjects_teachers,
     subjects_students |-> a.subjects_students \cup l.subjects_students,
     occupancies |-> a.occupancies \cup l.occupancies]

\* number of ids handed out by the allocators of store d
Issued(d) ==
    d.next_user_id + d.next_classroom_id + d.next_class_id + d.next_subject_id
        + d.next_subject_teacher_id + d.next_subject_students_id + d.next_occupancy_id

SeedIssued == Issued(seed_db(Cleared, CHOOSE links \in ResetLinkOrders : TRUE, 0))

\* number of rows handed out since the last reset that live set l lacks
Removed(l) ==
    LET a == assigned.since_reset
    IN  Cardinality(a.users \ l.users) + Cardinality(a.classrooms \ l.classrooms)
          + Cardinality(a.classes \ l.classes) + Cardinality(a.subjects \ l.subjects)
          + Cardinality(a.subjects_teachers \ l.subjects_teachers)
          + Cardinality(a.subjects_students \ l.subjects_students)
          + Cardinality(a.occupancies \ l.occupancies)

\* an operation is taken when its outcome stays within the bounds
Step(op, r) ==
    \E x \in { r } :
        /\ Issued(x.db) <= SeedIssued + MaxAdds
        /\ db' = x.db
        /\ resp' = [op |-> op, ret |-> x.ret, panic |-> x.panic, tokens |-> db.tokens]
        /\ \E l \in { Live(x.db) } :
              /\ Removed(l) <= MaxRemoved
              /\ assigned' = [ever |-> Merge(assigned.ever, l),
                              since_reset |-> Merge(assigned.since_reset, l)]
        /\ UNCHANGED << files, lock, tasks >>

\* a reset starts a new epoch of ids
StepReset(op, r) ==
    \E x \in { r } :
        /\ db' = x.db
        /\ resp' = [op |-> op, ret |-> x.ret, panic |-> x.panic, tokens |-> db.tokens]
        /\ \E l \in { Live(x.db) } :
              assigned' = [ever |-> Merge(assigned.ever, l), since_reset |-> l]
        /\ UNCHANGED << files, lock, tasks >>

\* A request names the ids issued so far or one that was never issued (all
\* ids never issued behave alike).
\* ---- engine operations called directly -------------------------------
op_classroom_remove ==
    \E ids \in Lists(0..db.next_classroom_id) :
        Step("classroom_remove", classroom_remove(db, ids))

op_class_remove ==
    \E ids \in Lists(0..db.next_class_id) :
        Step("class_remove", class_remove(db, ids))

op_subject_remove ==
    \E ids \in Lists(0..db.next_subject_id) :
        Step("subject_remove", subject_remove(db, ids))

op_occupancies_remove ==
    \E ids \in Lists(0..db.next_occupancy_id) :
        Step("occupancies_remove", occupancies_remove(db, ids))

op_user_remove ==
    \E ids \in Lists(0..db.next_user_id) :
        Step("user_remove", user_remove(db, ids))

\* the usernames a login may name: the administrator's, the test teacher's
\* and an unknown one
LoginNames ==
    { username_from_name(test_users[1].first_name, test_users[1].last_name),
      username_from_name(test_users[2].first_name, test_users[2].last_name),
      << "x" >> }

\* the passwords a login may give: the administrator's, the test teacher's
\* and a wrong one
LoginPasswords == { test_users[1].password, test_users[2].password, << "w" >> }

\* the token is 25 random alphanumeric characters: when one is generated, it
\* is one that is not in use
op_auth_login ==
    \E username \in LoginNames, password \in LoginPasswords, token \in Tokens :
        /\ auth_login(db, username, password, token).ret => \A p \in db.tokens : p[1] # token
        /\ Step("auth_login", auth_login(db, username, password, token))

\* a logout names a token a login may have returned, or one never issued
op_auth_logout ==
    \E token \in Tokens \cup { 0 } :
        Step("auth_logout", auth_logout(db, token))

op_classroom_add ==
    Step("classroom_add",
         Ok(classroom_add(db, [name |-> << "S" >>, capacity |-> 1]), TRUE))

op_class_add ==
    Step("class_add", Ok(class_add(db, [name |-> << "K" >>, level |-> "L1"]), TRUE))

\* the ids of the users that are or were teachers, and one never issued
TeacherIds ==
    { u.id : u \in { x \in Values(db.users) : x.kind.tag = "Teacher" } }
        \cup { 1, db.next_user_id }

op_subject_add ==
    \E class_id \in { 0 }, teacher_in_charge_id \in TeacherIds :
        Step("subject_add",
             Ok(subject_add(db, [class_id |-> class_id, name |-> << "N" >>,
                                 teacher_in_charge_id |-> teacher_in_charge_id]), TRUE))

op_user_add ==
    \E first_name \in FirstNames, last_name \in LastNames, kind \in { Teacher } :
        Step("user_add",
             Ok(user_add(db, NewUser(first_name, last_name, << "p" >>, kind)), TRUE))

op_occupancies_add ==
    \E subject_id \in { None, 0 }, now \in Clock :
        Step("occupancies_add",
             occupancies_add(db,
                 [classroom_id |-> 0, group_number |-> None, subject_id |-> subject_id,
                  teacher_id |-> 3, start_datetime |-> 2, end_datetime |-> 3,
                  occupancy_type |-> IF subject_id = None THEN "External" ELSE "CM",
                  name |-> << "o" >>], now))

op_teacher_set_teaches ==
    \E teacher_id \in TeacherIds, subject_id \in 0..db.next_subject_id :
        Step("teacher_set_teaches",
             Ok(teacher_set_teaches(db, teacher_id, subject_id), TRUE))

op_teacher_unset_teaches ==
    \E teacher_id \in TeacherIds, subject_id \in 0..db.next_subject_id :
        Step("teacher_unset_teaches",
             Ok(teacher_unset_teaches(db, teacher_id, subject_id), TRUE))

\* the ids of the users that are or were students
StudentIds ==
    { u.id : u \in { x \in Values(db.users) : x.kind.tag = "Student" } } \cup { 2 }

op_subject_add_student ==
    \E student_id \in StudentIds, subject_id \in DOMAIN db.subjects :
        Step("subject_add_student",
             Ok(subject_add_student(db, subject_id, student_id), TRUE))

op_reset ==
    \E links \in ResetLinkOrders, now \in Clock :
        StepReset("reset", Ok(reset(db, links, now), TRUE))

\* ---- requests ---------------------------------------------------------
do_classroom_delete ==
    \E request \in Lists(0..db.next_classroom_id) :
        Step("route_classroom_delete", route_classroom_delete(db, request))

do_class_delete ==
    \E request \in Lists(0..db.next_class_id) :
        Step("route_class_delete", route_class_delete(db, request))

do_subject_create ==
    \E class_id \in 0..db.next_class_id, teacher_in_charge_id \in TeacherIds :
        Step("route_subject_create",
             route_subject_create(db, [class_id |-> class_id, name |-> << "N" >>,
                                       teacher_in_charge_id |-> teacher_in_charge_id]))

do_subject_delete ==
    \E request \in Lists(0..db.next_subject_id) :
        Step("route_subject_delete", route_subject_delete(db, request))

do_subject_update ==
    \E id \in 0..db.next_subject_id, class_id \in { None, 0 },
       teacher_in_charge_id \in { None } \cup TeacherIds :
        Step("route_subject_update",
             route_subject_update(db, id,
                 [class_id |-> class_id, name |-> {},
                  teacher_in_charge_id |-> teacher_in_charge_id]))

do_subject_teacher_post ==
    \E subject_id \in 0..db.next_subject_id, request \in Lists(TeacherIds) :
        Step("route_subject_teacher_post",
             route_subject_teacher_post(db, subject_id, request))

do_subject_teacher_delete ==
    \E subject_id \in 0..db.next_subject_id, request \in Lists(TeacherIds) :
        Step("route_subject_teacher_delete",
             route_subject_teacher_delete(db, subject_id, request))

do_teacher_create ==
    \E first_name \in FirstNames, last_name \in LastNames :
        Step("route_teacher_create",
             route_teacher_create(db, [first_name |-> first_name, last_name |-> last_name],
                                  << "p" >>))

do_teacher_delete ==
    \E request \in Lists(TeacherIds) :
        Step("route_teacher_delete", route_teacher_delete(db, request))

do_student_create ==
    \E first_name \in FirstNames, last_name \in LastNames, class_id \in 0..db.next_class_id :
        Step("route_student_create",
             route_student_create(db, [first_name |-> first_name, last_name |-> last_name,
                                       class_id |-> class_id], << "p" >>))

do_student_delete ==
    \E request \in Lists(StudentIds \cup { db.next_user_id }) :
        Step("route_student_delete", route_student_delete(db, request))

do_subject_group_post ==
    \E subject_id \in 0..db.next_subject_id :
        /\ subject_id \in DOMAIN db.subjects
              => db.subjects[subject_id].group_count < MaxGroups
        /\ \E student_ids \in SortChoices(db, subject_id) :
              Step("route_subject_group_post",
                   route_subject_group_post(db, subject_id, student_ids))

do_subject_group_delete ==
    \E subject_id \in 0..db.next_subject_id :
        \E student_ids \in SortChoices(db, subject_id) :
            Step("route_subject_group_delete",
                 route_subject_group_delete(db, subject_id, student_ids))

\* an enrolment of a student of the store in a subject of the store
op_enrol ==
    \E student_id \in { u.id : u \in { x \in Values(db.users) : x.kind.tag = "Student" } },
       subject_id \in DOMAIN db.subjects :
        Step("subject_add_student",
             Ok(subject_add_student(db, subject_id, student_id), TRUE))

\* a redistribution of the groups of a subject of the store
op_distribute_subject_groups ==
    \E subject_id \in DOMAIN db.subjects :
        \E student_ids \in SortChoices(db, subject_id) :
            Step("distribute_subject_groups",
                 distribute_subject_groups(db, subject_id, student_ids))

\* the bulk removals and the login
NextRemove ==
    \/ op_classroom_remove
    \/ op_class_remove
    \/ op_subject_remove
    \/ op_occupancies_remove
    \/ op_user_remove
    \/ op_auth_login

SpecRemove == Init /\ [][NextRemove]_vars

\* the sessions: login, logout and the removal of users
NextAuth ==
    \/ op_auth_login
    \/ op_auth_logout
    \/ op_user_remove

SpecAuth == Init /\ [][NextAuth]_vars

\* the allocators: every add and every removal of the engine
NextIds ==
    \/ op_classroom_add
    \/ op_class_add
    \/ op_subject_add
    \/ op_user_add
    \/ op_occupancies_add
    \/ op_teacher_set_teaches
    \/ op_teacher_unset_teaches
    \/ op_subject_add_student
    \/ op_classroom_remove
    \/ op_class_remove
    \/ op_subject_remove
    \/ op_occupancies_remove
    \/ op_user_remove

SpecIds == Init /\ [][NextIds]_vars

\* allocation, removal and reset
NextIdsReset ==
    \/ op_classroom_add
    \/ op_user_add
    \/ op_occupancies_add
    \/ op_classroom_remove
    \/ op_user_remove
    \/ op_occupancies_remove
    \/ op_reset

SpecIdsReset == Init /\ [][NextIdsReset]_vars

\* the requests on subjects, teachers, classes, classrooms and students
NextHandlers ==
    \/ do_subject_create
    \/ do_subject_update
    \/ do_subject_delete
    \/ do_subject_teacher_post
    \/ do_subject_teacher_delete
    \/ do_teacher_create
    \/ do_teacher_delete
    \/ do_student_delete
    \/ do_classroom_delete
    \/ do_class_delete

SpecHandlers == Init /\ [][NextHandlers]_vars

\* the requests that write the subjects_teachers table
NextTeaches ==
    \/ do_subject_create
    \/ do_subject_update
    \/ do_subject_delete
    \/ do_subject_teacher_post
    \/ do_subject_teacher_delete

SpecTeaches == Init /\ [][NextTeaches]_vars

\* ---- the paginated lists ----------------------------------------------
RECURSIVE AscendingById(_)
AscendingById(rows) ==
    IF rows = {} THEN << >>
    ELSE LET r == CHOOSE x \in rows : \A y \in rows : x.id <= y.id
         IN  << r >> \o AscendingById(rows \ { r })

Reversed(s) == [i \in 1..Len(s) |-> s[Len(s) + 1 - i]]

Rotated(s) == IF s = << >> THEN s ELSE Tail(s) \o << Head(s) >>

\* orders in which HashMap::values may yield the rows (any order is
\* possible; these are the ones explored)
IterOrders(rows) ==
    { AscendingById(rows), Reversed(AscendingById(rows)), Rotated(AscendingById(rows)) }

\* the name of the i-th classroom added before the listing
RoomName(i) ==
    CASE i % 4 = 0 -> << "A", "b" >>
      [] i % 4 = 1 -> << "a" >>
      [] i % 4 = 2 -> << "é", "B" >>
      [] i % 4 = 3 -> << "c" >>

\* the seeded store after n calls of classroom_add
WithRooms(n) ==
    AddAll("classrooms", reset(Cleared, CHOOSE links \in ResetLinkOrders : TRUE, 0),
           [i \in 1..n |-> [name |-> RoomName(i), capacity |-> 1]])

InitSearch ==
    /\ \E n \in 0..MaxRooms : db = set_dirty(WithRooms(n))
    /\ resp = [op |-> "new", ret |-> TRUE, panic |-> FALSE, tokens |-> {}]
    /\ assigned = [ever |-> Live(db), since_reset |-> Live(db)]
    /\ Quiet

\* the queries of a list request
Queries == { {}, { << >> }, { << " ", "A", " " >> }, { << "e" >> } }

\* normalized_page_number: any usize from 1 on
Pages == 1..(UsizeModulus - 1)

\* the closures the user handlers pass as filter
UserFilters(rows) ==
    { [u \in rows |-> TRUE], [u \in rows |-> u.kind.tag = "Teacher"] }

\* a list records its arguments next to its result; it changes nothing in
\* the store, so one list per behaviour shows all a list can do
Listed(op, r, values, page, query, filter) ==
    /\ resp.op = "new"
    /\ resp' = [op |-> op, ret |-> [total |-> r.total, results |-> r.results],
                panic |-> r.panic, tokens |-> db.tokens,
                values |-> values, page |-> page, query |-> query, filter |-> filter]
    /\ UNCHANGED << db, assigned, files, lock, tasks >>

op_classroom_list ==
    \E values \in IterOrders(Values(db.classrooms)), page \in Pages,
       query \in Queries, overflow_checks \in BOOLEAN :
        Listed("classroom_list",
               classroom_list(db, values, page, query, overflow_checks),
               values, { page }, query, [c \in Range(values) |-> TRUE])

op_user_list ==
    \E values \in IterOrders(Values(db.users)), page \in { {}, { 1 }, { 2 } },
       query \in Queries, filter \in UserFilters(Values(db.users)),
       overflow_checks \in BOOLEAN :
        Listed("user_list",
               user_list(db, values, page, query, filter, overflow_checks),
               values, page, query, filter)

\* the page parameter of a list request: absent, zero, or a page
RequestPages == { {}, { 0 }, { 1 }, { 2 } }

\* GET /classrooms; the record of the list keeps the request as it came
do_classroom_list ==
    \E values \in IterOrders(Values(db.classrooms)), page \in RequestPages,
       query \in Queries, overflow_checks \in BOOLEAN :
        \E r \in { route_classroom_list(db, values, [page |-> page, query |-> query],
                                         overflow_checks) } :
            /\ resp.op = "new"
            /\ resp' = [op |-> "route_classroom_list",
                        ret |-> [total |-> r.total, results |-> r.results],
                        panic |-> r.panic, tokens |-> db.tokens,
                        values |-> values, page |-> page, query |-> query,
                        filter |-> [c \in Range(values) |-> TRUE]]
            /\ UNCHANGED << db, assigned, files, lock, tasks >>

NextSearch ==
    \/ op_classroom_list
    \/ op_user_list
    \/ do_classroom_list

SpecSearch == InitSearch /\ [][NextSearch]_vars

\* ---- the distribution of the students of a subject -------------------
\* the name of the i-th student created before the distribution; the second
\* and the third have the same full name and different usernames
StudentName(i) ==
    CASE i = 1 -> [first_name |-> << "A" >>, last_name |-> << "A" >>]
      [] i = 2 -> [first_name |-> << "A", " ", "B" >>, last_name |-> << "C" >>]
      [] i = 3 -> [first_name |-> << "A" >>, last_name |-> << "B", " ", "C" >>]
      [] OTHER -> [first_name |-> << Alphabet[2 + i] >>, last_name |-> << "Z" >>]

RECURSIVE WithGroups(_, _)
\* store d after the calls of subject_add_group that give subject 0 g groups
WithGroups(d, g) ==
    IF d.subjects[0].group_count >= g THEN d
    ELSE WithGroups(subject_add_group(d, 0).db, g)

\* the seeded store after n students were created and enrolled in subject 0
\* and the subject was given g groups
WithStudents(n, g) ==
    LET seeded == reset(Cleared, CHOOSE links \in ResetLinkOrders : TRUE, 0)
        created == AddAll("users", seeded,
                          [i \in 1..n |-> NewUser(StudentName(i).first_name,
                                                  StudentName(i).last_name,
                                                  << "p" >>, Student(0))])
        enrolled == AddAll("links", created,
                           [i \in 1..n |-> << seeded.next_user_id + i - 1, 0 >>])
    IN  WithGroups(set_dirty(enrolled), g)

InitDistribute ==
    /\ \E n \in 0..MaxStudents, g \in 1..MaxGroups : db = WithStudents(n, g)
    /\ resp = [op |-> "new", ret |-> TRUE, panic |-> FALSE, tokens |-> {}]
    /\ assigned = [ever |-> Live(db), since_reset |-> Live(db)]
    /\ Quiet

\* an operation on a store that holds more rows than the seeded one
Applied(op, r) ==
    /\ db' = r.db
    /\ resp' = [op |-> op, ret |-> r.ret, panic |-> r.panic, tokens |-> db.tokens]
    /\ assigned' = [ever |-> Merge(assigned.ever, Live(r.db)),
                    since_reset |-> Merge(assigned.since_reset, Live(r.db))]
    /\ UNCHANGED << files, lock, tasks >>

op_distribute ==
    \E subject_id \in DOMAIN db.subjects :
        \E student_ids \in SortChoices(db, subject_id) :
            Applied("distribute_subject_groups",
                    distribute_subject_groups(db, subject_id, student_ids))

op_subject_add_group ==
    \E subject_id \in DOMAIN db.subjects :
        /\ db.subjects[subject_id].group_count < MaxGroups
        /\ Applied("subject_add_group", subject_add_group(db, subject_id))

op_subject_remove_group ==
    \E subject_id \in DOMAIN db.subjects :
        Applied("subject_remove_group", subject_remove_group(db, subject_id))

NextDistribute ==
    \/ op_distribute
    \/ op_subject_add_group
    \/ op_subject_remove_group

SpecDistribute == InitDistribute /\ [][NextDistribute]_vars

\* ---- occupancies over distributed students -----------------------------
\* the store of WithStudents(n, g) after a distribution of subject 0
Distributed(n, g) ==
    LET d == WithStudents(n, g)
    IN  distribute_subject_groups(d, 0, CHOOSE o \in SortChoices(d, 0) : TRUE).db

InitOccupancies ==
    /\ \E n \in 0..MaxStudents, g \in 1..MaxGroups : db = Distributed(n, g)
    /\ resp = [op |-> "new", ret |-> TRUE, panic |-> FALSE, tokens |-> {}]
    /\ assigned = [ever |-> Live(db), since_reset |-> Live(db)]
    /\ Quiet

\* (start_datetime, end_datetime) of a new occupancy
OccupancyWindows == { << 0, 1 >>, << 2, 3 >> }

\* (subject_id, group_number) of a new occupancy: no subject, the seeded
\* subject, or one of its groups
OccupancySubjects == { << None, None >>, << 0, None >>, << 0, 0 >>, << 0, 1 >> }

\* the instants a window of a free check is made of
Instants == 0..3

\* the occupancies a request may create: with or without classroom, subject
\* and group, given by a teacher of the seeded subject
NewOccupancies(d) ==
    { [classroom_id |-> classroom_id, group_number |-> of[2],
       subject_id |-> of[1], teacher_id |-> teacher_id,
       start_datetime |-> w[1], end_datetime |-> w[2],
       occupancy_type |-> IF of[1] = None THEN "External" ELSE "TD",
       name |-> << "o" >>] :
        classroom_id \in { None, 0 },
        of \in OccupancySubjects,
        teacher_id \in { u.id : u \in { x \in Values(d.users) :
                                          /\ x.kind.tag = "Teacher"
                                          /\ teacher_teaches(d, x.id, 0) } },
        w \in OccupancyWindows }

\* occupancies of the seeded store
SeedOccupancies == Distributed(0, 1).next_occupancy_id

op_occupancy_create ==
    \E occupancy \in NewOccupancies(db), now \in Clock :
        /\ db.next_occupancy_id < SeedOccupancies + MaxOccupancies
        /\ Applied("occupancies_add", occupancies_add(db, occupancy, now))

\* a removal of the occupancy added last, or of one never added
op_occupancy_cancel ==
    \E ids \in Lists({ db.next_occupancy_id - 1, db.next_occupancy_id }) :
        Applied("occupancies_remove", occupancies_remove(db, ids))

NextOccupancies ==
    \/ op_occupancy_create
    \/ op_occupancy_cancel

SpecOccupancies == InitOccupancies /\ [][NextOccupancies]_vars

\* ---- a long run of occupancy creations ---------------------------------
\* the timestamps of the records of a modification list, first to last
Stamps(list) == [i \in DOMAIN list |-> list[i].modification_timestamp]

\* the history starts with what seeding logged for each user
InitAudit ==
    /\ \E links \in ResetLinkOrders : db = reset(Cleared, links, 0)
    /\ resp = [op |-> "new", ret |-> TRUE, panic |-> FALSE, tokens |-> {}, now |-> 0,
               logged |-> [uid \in 0..db.next_user_id |->
                             Stamps(IF uid \in DOMAIN db.modifications
                                    THEN db.modifications[uid] ELSE << >>)]]
    /\ assigned = [ever |-> Live(db), since_reset |-> Live(db)]
    /\ Quiet

\* occupancies of the store a reset leaves
ResetOccupancies == reset(Cleared, CHOOSE links \in ResetLinkOrders : TRUE, 0).next_occupancy_id

\* the occupancies of the run: of the whole seeded subject, given by the
\* teacher of the subject
AuditOccupancies(d) ==
    { [classroom_id |-> None, group_number |-> group_number,
       subject_id |-> 0, teacher_id |-> teacher_id,
       start_datetime |-> 0, end_datetime |-> 1,
       occupancy_type |-> "TD", name |-> << "o" >>] :
        group_number \in { None },
        teacher_id \in { u.id : u \in { x \in Values(d.users) :
                                          /\ x.kind.tag = "Teacher"
                                          /\ teacher_teaches(d, x.id, 0) } } }

\* occupancies_add at a clock that does not run backwards; the history
\* gets the timestamp at the head of the log of every user the creation
\* affects: the teacher and the students of the subject
op_audit_create ==
    \E occupancy \in AuditOccupancies(db), now \in { resp.now, resp.now + 1 } :
        /\ now <= MaxClock
        /\ db.next_occupancy_id < ResetOccupancies + MaxCreations
        /\ \E r \in { occupancies_add(db, occupancy, now) } :
              /\ db' = r.db
              /\ resp' = [op |-> "occupancies_add", ret |-> r.ret, panic |-> r.panic,
                          tokens |-> db.tokens, now |-> now,
                          logged |-> [uid \in DOMAIN resp.logged |->
                             IF ~ r.panic /\
                                uid \in { occupancy.teacher_id } \cup
                                        { x.student_id : x \in { y \in Values(db.subjects_students) :
                                              y.subject_id = occupancy.subject_id } }
                             THEN << now >> \o resp.logged[uid]
                             ELSE resp.logged[uid]]]
              /\ assigned' = [ever |-> Merge(assigned.ever, Live(r.db)),
                              since_reset |-> Merge(assigned.since_reset, Live(r.db))]
        /\ UNCHANGED << files, lock, tasks >>

NextAudit == op_audit_create

SpecAudit == InitAudit /\ [][NextAudit]_vars

\* the requests on the groups of a subject, and what changes its students
NextGroups ==
    \/ do_subject_group_post
    \/ do_subject_group_delete
    \/ op_distribute_subject_groups
    \/ op_enrol
    \/ do_student_create
    \/ do_student_delete

SpecGroups == Init /\ [][NextGroups]_vars

(***************************************************************************)
(* Persistence (JSONDatabase::new, from_file, dirty_to_bincode, main.rs    *)
(* save) and the files of routes/manage.rs.  A file is what its bytes      *)
(* decode to: bincode::deserialize accepts the bytes bincode::serialize    *)
(* wrote and nothing else.  The text serde_json::to_string writes starts   *)
(* with "{", which is no encoding of the bool the struct starts with, and  *)
(* a file that File::create has just truncated ends before that bool.      *)
(* No field of the store or of its rows is skipped or renamed in a way     *)
(* that loses it (models.rs), so both encodings keep every field.          *)
(***************************************************************************)
\* File::open or read_to_end fails
Unreadable == [format |-> "unreadable"]
\* bytes that are no encoding of a store
Garbage == [format |-> "garbage"]
\* a file File::create has truncated and nothing was written to yet
Truncated == [format |-> "truncated"]

bincode_serialize(d) == [format |-> "bincode", value |-> d]

bincode_deserialize(contents) ==
    IF contents.format = "bincode" THEN { contents.value } ELSE {}

\* serde_json::to_string(&self)
dump_as_json(d) == [format |-> "json", value |-> d]

\* Result<Self, io::Error> as a set: empty on Err
from_file(file) ==
    IF file.format \in { "missing", "unreadable" } THEN {}
    ELSE bincode_deserialize(file)

is_dirty(d) == d.dirty

\* a snapshot that leaves the flag as it is
dirty_to_bincode_keep(d) == [db |-> d, bytes |-> bincode_serialize(d)]

\* the flag is cleared before the store is serialized
dirty_to_bincode(d) ==
    LET cleared == [d EXCEPT !.dirty = FALSE]
    IN  [db |-> cleared, bytes |-> bincode_serialize(cleared)]

delay_get(d) == d.delay

\* a start that seeds whatever the file holds
new_db_seeded(file, links, now) == reset(Cleared, links, now)

\* new_db, that is JSONDatabase::new: the store of the file, or a reset of an empty one
new_db(file, links, now) ==
    IF from_file(file) # {} THEN CHOOSE d \in from_file(file) : TRUE
    ELSE reset(Cleared, links, now)

\* ---- startup ------------------------------------------------------------
\* the stores an earlier run may have left in db.bin
EarlierStores ==
    { dirty_to_bincode([WithRooms(n) EXCEPT !.delay = delay, !.tokens = tokens]).db :
        n \in 0..MaxRooms, delay \in 0..2,
        tokens \in { {}, { << 1, (CHOOSE u \in Values(WithRooms(0).users) :
                                        u.kind.tag = "Administrator").username >> } } }

\* what main finds under the name db.bin
StartFiles ==
    { Missing, Unreadable, Garbage, Truncated }
      \cup { bincode_serialize(d) : d \in EarlierStores }
      \cup { dump_as_json(d) : d \in { WithRooms(0) } }

\* before new_db there is no store; db is the empty struct literal of new
InitStartup ==
    /\ db = Cleared
    /\ resp = [op |-> "main", ret |-> FALSE, panic |-> FALSE, tokens |-> {}]
    /\ assigned = [ever |-> Live(db), since_reset |-> Live(db)]
    /\ \E file \in StartFiles : files = [db_bin |-> file, save_json |-> Missing]
    /\ lock = None
    /\ tasks = << >>

\* new_db(DB_FNAME)
op_new ==
    /\ resp.op = "main"
    /\ \E links \in ResetLinkOrders :
          /\ db' = new_db(files.db_bin, links, 0)
          /\ resp' = [op |-> "new", ret |-> from_file(files.db_bin) # {},
                      panic |-> FALSE, tokens |-> {}]
          /\ assigned' = [ever |-> Live(db'), since_reset |-> Live(db')]
    /\ UNCHANGED << files, lock, tasks >>

NextStartup == op_new

SpecStartup == InitStartup /\ [][NextStartup]_vars

(***************************************************************************)
(* Tasks and the lock (db/src/lib.rs Db, main.rs, filters/src/delayed.rs,  *)
(* routes/manage.rs).  Task 0 is save_regurarly; the others serve one      *)
(* request at a time.  A task takes the Mutex, runs the steps of its       *)
(* critical section and drops the guard; an .await on a file, a timer or   *)
(* the Mutex is a point where the task stands while others run.  The       *)
(* authentication filters in front of a handler take the lock on their own *)
(* and only read the store; they have a specification of their own,        *)
(* SpecAuthed.                                                             *)
(***************************************************************************)
Flush == 0
ReqTasks == 1..MaxTasks

\* Mutex::lock resolves when nobody holds the Mutex
MutexFree_always(l) == TRUE
MutexFree(l) == l = None

\* drop(MutexGuard)
drop_guard(l, t) == IF l = t THEN None ELSE l

\* the store without its dirty flag
Contents(d) == [f \in DOMAIN d \ { "dirty" } |-> d[f]]

Nothing == [format |-> "nothing"]

\* a task between requests
Idle == [pc |-> "idle", req |-> "", seen |-> Nothing, left |-> Nothing, hold |-> Nothing]

\* routes behind the delayed filter, and the management routes
HandlerRoutes == { "classroom_create", "student_delete", "group_post" }
ManageRoutes == { "set_delay", "export", "import", "dump", "reset" }

\* the arguments of the requests
NewRoom == [name |-> << "N" >>, capacity |-> 1]
GoneStudents == << 2 >>
GroupSubject == 0
NewDelay == 1

\* save.json as an operator may have left it: absent, or a copy of a db.bin
\* that an earlier run of the server wrote
SavedFiles == { Missing, dirty_to_bincode(WithRooms(0)).bytes }

InitServer ==
    /\ \E links \in ResetLinkOrders : db = new_db(Missing, links, 0)
    /\ resp = [op |-> "new", ret |-> FALSE, panic |-> FALSE, tokens |-> {}]
    /\ assigned = [ever |-> Live(db), since_reset |-> Live(db),
                   between |-> { Contents(db) }, last |-> db, begun |-> 0]
    /\ \E file \in SavedFiles : files = [db_bin |-> Missing, save_json |-> file]
    /\ lock = None
    /\ tasks = [t \in { Flush } \cup ReqTasks |->
                  IF t = Flush THEN [Idle EXCEPT !.pc = "save_wait"] ELSE Idle]

\* a request arrives on a route, while the behaviour has requests left: its
\* first await is Mutex::lock
Start(t, routes, budget) ==
    /\ tasks[t].pc \in { "idle", "responded", "panicked" }
    /\ assigned.begun < budget
    /\ \E route \in routes :
          tasks' = [tasks EXCEPT ![t] = [Idle EXCEPT !.pc = "wait", !.req = route]]
    /\ assigned' = [assigned EXCEPT !.begun = @ + 1]
    /\ UNCHANGED << db, resp, files, lock >>

\* db.lock().await resolves
Acquire(t) ==
    /\ tasks[t].pc = "wait"
    /\ MutexFree(lock)
    /\ lock' = t
    /\ tasks' = [tasks EXCEPT ![t] = [@ EXCEPT !.pc = "locked", !.seen = db]]
    /\ UNCHANGED << db, resp, assigned, files >>

\* the end of a critical section with outcome r: the guard is dropped, by
\* the return or by the unwinding of a panic; a handler that returned goes
\* on to the delayed filter when its route has one
Finish(t, r, hold) ==
    /\ db' = r.db
    /\ lock' = drop_guard(lock, t)
    /\ resp' = [op |-> tasks[t].req, ret |-> r.ret, panic |-> r.panic,
                tokens |-> db.tokens]
    /\ tasks' = [tasks EXCEPT ![t] =
                  [@ EXCEPT !.pc = IF r.panic THEN "panicked"
                                   ELSE IF tasks[t].req \in HandlerRoutes THEN "delay_wait"
                                   ELSE "responded",
                            !.left = r, !.hold = hold]]
    /\ assigned' = [ever |-> Merge(assigned.ever, Live(r.db)),
                    since_reset |-> Merge(assigned.since_reset, Live(r.db)),
                    between |-> IF r.panic THEN assigned.between
                                ELSE assigned.between \cup { Contents(r.db) },
                    last |-> r.db,
                    begun |-> assigned.begun]
    /\ UNCHANGED files

\* classroom.rs create, student.rs delete: one engine call under the lock
Handle(t) ==
    /\ tasks[t].pc = "locked"
    /\ tasks[t].req \in { "classroom_create", "student_delete" }
    /\ Finish(t, IF tasks[t].req = "classroom_create"
                 THEN route_classroom_create(db, NewRoom)
                 ELSE route_student_delete(db, GoneStudents), Nothing)

\* subject.rs group_post up to subject_add_group
GroupPostAdd(t) ==
    /\ tasks[t].pc = "locked"
    /\ tasks[t].req = "group_post"
    /\ IF subject_get(db, GroupSubject) = {}
       THEN Finish(t, Ok(db, FALSE), Nothing)
       ELSE /\ db' = subject_add_group(db, GroupSubject).db
            /\ tasks' = [tasks EXCEPT ![t] = [@ EXCEPT !.pc = "group_post_distribute"]]
            /\ UNCHANGED << resp, assigned, files, lock >>

\* subject.rs group_post: distribute_subject_groups and the response
GroupPostDistribute(t) ==
    /\ tasks[t].pc = "group_post_distribute"
    /\ \E student_ids \in SortChoices(db, GroupSubject) :
          Finish(t, distribute_subject_groups(db, GroupSubject, student_ids), Nothing)

\* delayed.rs delay: db.lock().await resolves
DelayLock(t) ==
    /\ tasks[t].pc = "delay_wait"
    /\ MutexFree(lock)
    /\ lock' = t
    /\ tasks' = [tasks EXCEPT ![t] = [@ EXCEPT !.pc = "delay_locked"]]
    /\ UNCHANGED << db, resp, assigned, files >>

\* a delay that sleeps inside the block
DelayGet_holding(t) ==
    /\ tasks[t].pc = "delay_locked"
    /\ tasks' = [tasks EXCEPT ![t] =
                  [@ EXCEPT !.pc = "sleeping", !.hold = [delay |-> delay_get(db)]]]
    /\ UNCHANGED << db, resp, assigned, files, lock >>

\* delayed.rs delay: delay_get inside the block, the guard dropped at its
\* end, then delay_for(delay).await
DelayGet(t) ==
    /\ tasks[t].pc = "delay_locked"
    /\ lock' = drop_guard(lock, t)
    /\ tasks' = [tasks EXCEPT ![t] =
                  [@ EXCEPT !.pc = "sleeping", !.hold = [delay |-> delay_get(db)]]]
    /\ UNCHANGED << db, resp, assigned, files >>

\* the timer of delay_for fires and the response leaves
DelayWake(t) ==
    /\ tasks[t].pc = "sleeping"
    /\ tasks' = [tasks EXCEPT ![t] = [@ EXCEPT !.pc = "responded"]]
    /\ UNCHANGED << db, resp, assigned, files, lock >>

\* main.rs save: db.lock().await resolves
SaveLock ==
    /\ tasks[Flush].pc = "save_wait"
    /\ MutexFree(lock)
    /\ lock' = Flush
    /\ tasks' = [tasks EXCEPT ![Flush] = [@ EXCEPT !.pc = "save_locked", !.seen = db]]
    /\ UNCHANGED << db, resp, assigned, files >>

\* main.rs save, lines 59-73: the block under the lock, and the return
\* when it gave None
SaveCheck ==
    /\ tasks[Flush].pc = "save_locked"
    /\ lock' = drop_guard(lock, Flush)
    /\ IF is_dirty(db)
       THEN /\ db' = dirty_to_bincode(db).db
            /\ tasks' = [tasks EXCEPT ![Flush] =
                          [@ EXCEPT !.pc = "save_create",
                                    !.hold = dirty_to_bincode(db).bytes]]
       ELSE /\ db' = db
            /\ tasks' = [tasks EXCEPT ![Flush] =
                          [@ EXCEPT !.pc = "save_sleep", !.hold = Nothing]]
    /\ assigned' = [assigned EXCEPT !.last = db']
    /\ UNCHANGED << resp, files >>

\* main.rs save: File::create(DB_FNAME).await
SaveCreate ==
    /\ tasks[Flush].pc = "save_create"
    /\ files' = [files EXCEPT !.db_bin = Truncated]
    /\ tasks' = [tasks EXCEPT ![Flush] = [@ EXCEPT !.pc = "save_write"]]
    /\ UNCHANGED << db, resp, assigned, lock >>

\* main.rs save: write_all(&serialized).await
SaveWrite ==
    /\ tasks[Flush].pc = "save_write"
    /\ files' = [files EXCEPT !.db_bin = tasks[Flush].hold]
    /\ tasks' = [tasks EXCEPT ![Flush] = [@ EXCEPT !.pc = "save_sleep"]]
    /\ UNCHANGED << db, resp, assigned, lock >>

\* main.rs save_regurarly: delay_for(5 s).await is over
SaveSleep ==
    /\ tasks[Flush].pc = "save_sleep"
    /\ tasks' = [tasks EXCEPT ![Flush] = [@ EXCEPT !.pc = "save_wait"]]
    /\ UNCHANGED << db, resp, assigned, files, lock >>

NextServer ==
    \/ \E t \in ReqTasks :
          \/ Start(t, HandlerRoutes, MaxServed)
          \/ Acquire(t)
          \/ Handle(t)
          \/ GroupPostAdd(t)
          \/ GroupPostDistribute(t)
          \/ DelayLock(t)
          \/ DelayGet(t)
          \/ DelayWake(t)
    \/ SaveLock
    \/ SaveCheck
    \/ SaveCreate
    \/ SaveWrite
    \/ SaveSleep

SpecServer == InitServer /\ [][NextServer]_vars

\* ---- the management routes ----------------------------------------------
\* manage.rs set_delay
SetDelay(t) ==
    /\ tasks[t].pc = "locked"
    /\ tasks[t].req = "set_delay"
    /\ Finish(t, Ok(delay_set(db, NewDelay), TRUE), Nothing)

\* manage.rs reset
Reset(t) ==
    /\ tasks[t].pc = "locked"
    /\ tasks[t].req = "reset"
    /\ \E links \in ResetLinkOrders : Finish(t, route_manage_reset(db, links, 0), Nothing)

\* manage.rs dump
Dump(t) ==
    /\ tasks[t].pc = "locked"
    /\ tasks[t].req = "dump"
    /\ Finish(t, Ok(db, TRUE), dump_as_json(db))

\* manage.rs import: the store becomes what from_file("save.json") gives,
\* or stays when it gives an error; the task keeps the bytes it has read
Import(t) ==
    /\ tasks[t].pc = "locked"
    /\ tasks[t].req = "import"
    /\ Finish(t, IF from_file(files.save_json) = {} THEN Ok(db, FALSE)
                 ELSE Ok(CHOOSE d \in from_file(files.save_json) : TRUE, TRUE),
              files.save_json)

\* manage.rs export: dump_as_json under the lock, up to File::create(..).await
ExportDump(t) ==
    /\ tasks[t].pc = "locked"
    /\ tasks[t].req = "export"
    /\ tasks' = [tasks EXCEPT ![t] =
                  [@ EXCEPT !.pc = "export_create", !.hold = dump_as_json(db)]]
    /\ UNCHANGED << db, resp, assigned, files, lock >>

\* manage.rs export: the file is created, up to write_all(..).await
ExportCreate(t) ==
    /\ tasks[t].pc = "export_create"
    /\ files' = [files EXCEPT !.save_json = Truncated]
    /\ tasks' = [tasks EXCEPT ![t] = [@ EXCEPT !.pc = "export_write"]]
    /\ UNCHANGED << db, resp, assigned, lock >>

\* manage.rs export: the dump is written and the handler returns; db, the
\* guard taken at the top of the handler, is dropped here
ExportWrite(t) ==
    /\ tasks[t].pc = "export_write"
    /\ files' = [files EXCEPT !.save_json = tasks[t].hold]
    /\ db' = db
    /\ lock' = drop_guard(lock, t)
    /\ resp' = [op |-> "export", ret |-> TRUE, panic |-> FALSE, tokens |-> db.tokens]
    /\ tasks' = [tasks EXCEPT ![t] = [@ EXCEPT !.pc = "responded", !.left = Ok(db, TRUE)]]
    /\ assigned' = [assigned EXCEPT !.between = @ \cup { Contents(db) }, !.last = db]

NextManage ==
    \E t \in ReqTasks :
        \/ Start(t, ManageRoutes, MaxManaged)
        \/ Acquire(t)
        \/ SetDelay(t)
        \/ Reset(t)
        \/ Dump(t)
        \/ Import(t)
        \/ ExportDump(t)
        \/ ExportCreate(t)
        \/ ExportWrite(t)

SpecManage == InitServer /\ [][NextManage]_vars

(***************************************************************************)
(* Bulk removals                                                           *)
(***************************************************************************)
\* what a bulk removal of ids must do to its table: r is its outcome on
\* store d
AllOrNothing(d, r, table, ids) ==
    LET before == Values(d[table])
        after == Values(r.db[table])
    IN  IF Range(ids) \subseteq { row.id : row \in before }
        THEN /\ r.ret
             /\ r.db.dirty
             /\ after = { row \in before : row.id \notin Range(ids) }
             /\ \A f \in DOMAIN d \ { table, "dirty", "tokens" } : r.db[f] = d[f]
             /\ r.db.tokens \subseteq d.tokens
        ELSE /\ ~ r.ret
             /\ r.db = d

\* C1: each of the five bulk removals is all-or-nothing.  When one of the
\* requested ids is missing it returns false and the whole store (tables,
\* counters, tokens, dirty flag) is as before; when all exist it removes
\* exactly the requested rows, leaves every other row and every counter as
\* it was, returns true and sets dirty.
C1_BulkRemoveAllOrNothing ==
    /\ \A ids \in Lists(0..db.next_classroom_id) :
          AllOrNothing(db, classroom_remove(db, ids), "classrooms", ids)
    /\ \A ids \in Lists(0..db.next_class_id) :
          AllOrNothing(db, class_remove(db, ids), "classes", ids)
    /\ \A ids \in Lists(0..db.next_subject_id) :
          AllOrNothing(db, subject_remove(db, ids), "subjects", ids)
    /\ \A ids \in Lists(0..db.next_occupancy_id) :
          AllOrNothing(db, occupancies_remove(db, ids), "occupancies", ids)
    /\ \A ids \in Lists(0..db.next_user_id) :
          AllOrNothing(db, user_remove(db, ids), "users", ids)

\* a user removal was rejected in a store from which a user had been
\* removed before
C1_Witness ==
    /\ resp.op = "user_remove"
    /\ ~ resp.ret
    /\ assigned.ever.users # Live(db).users
    /\ Live(db).users # {}

(***************************************************************************)
(* Login                                                                   *)
(***************************************************************************)
\* C10: a login with an unknown username or a wrong password fails and
\* leaves the token registry, the tables and the dirty flag unchanged.
C10_FailedLoginChangesNothing ==
    \A username \in LoginNames, password \in LoginPasswords, token \in Tokens :
        (username \notin DOMAIN db.users \/ db.users[username].password # password)
            => LET r == auth_login(db, username, password, token)
               IN  ~ r.ret /\ r.db = db

\* a login failed while a session was open
C10_Witness ==
    /\ resp.op = "auth_login"
    /\ ~ resp.ret
    /\ db.tokens # {}

\* C11: when a user who holds a token logs in again, the new token differs
\* from the earlier one and both resolve to that user afterwards.
C11_LoginKeepsEarlierTokens ==
    (resp.op = "auth_login" /\ resp.ret) =>
        \A q \in db.tokens \ resp.tokens : \A p \in resp.tokens :
            p[2] = q[2] =>
                /\ p[1] # q[1]
                /\ auth_get_user(db, p[1]) # {}
                /\ auth_get_user(db, p[1]) = auth_get_user(db, q[1])

\* C12: auth_logout returns true exactly when the token is registered; after
\* it the token resolves to no user; for a token that is not registered the
\* registry is left as it was.
C12_LogoutRemovesToken ==
    \A token \in Tokens \cup { 0 } :
        LET r == auth_logout(db, token)
            registered == \E p \in db.tokens : p[1] = token
        IN  /\ r.ret <=> registered
            /\ auth_get_user(r.db, token) = {}
            /\ ~ registered => r.db.tokens = db.tokens

\* a logout closed one session and another stays open
C12_Witness ==
    /\ resp.op = "auth_logout"
    /\ resp.ret
    /\ db.tokens # {}
    /\ \E p \in resp.tokens : auth_get_user(db, p[1]) = {}

\* C13: after a successful user_remove no registry entry is bound to the
\* username of a removed user, the tokens of the removed users resolve to no
\* user and every other token resolves as before.
C13_UserRemovePurgesTokens ==
    \A ids \in Lists(0..db.next_user_id) :
        LET r == user_remove(db, ids)
            removed == { n \in DOMAIN db.users : db.users[n].id \in Range(ids) }
        IN  r.ret =>
                /\ \A p \in r.db.tokens : p[2] \notin removed
                /\ \A p \in db.tokens :
                      IF p[2] \in removed
                      THEN auth_get_user(r.db, p[1]) = {}
                      ELSE auth_get_user(r.db, p[1]) = auth_get_user(db, p[1])

\* a user with an open session was removed while another session stays open
C13_Witness ==
    /\ resp.op = "user_remove"
    /\ resp.ret
    /\ \E p \in resp.tokens : p \notin db.tokens /\ p[2] \notin DOMAIN db.users
    /\ \E q \in resp.tokens : q \in db.tokens /\ auth_get_user(db, q[1]) # {}

(***************************************************************************)
(* Paginated lists                                                         *)
(***************************************************************************)
\* the property a list searches in a row
ListedProperty(row) == IF resp.op = "user_list" THEN full_name(row) ELSE row.name

\* the rows of the listed table that match the query and the predicate
ListedMatches ==
    { row \in Range(resp.values) :
        contains_query(resp.query, ListedProperty(row)) /\ resp.filter[row] }

\* the page p of the last list, over the same store and iteration order
ListedPage(p) ==
    search_loop(resp.values,
                [row \in Range(resp.values) |-> row \in ListedMatches],
                (p - 1) * PAGE_SIZE, 0, 0, << >>).results

\* C14: the total a paginated list returns is the number of rows of the
\* whole table that match the query and the predicate, whatever page >= 1
\* was asked for.
C14_TotalCountsAllMatches ==
    (resp.op \in { "classroom_list", "user_list" } /\ ~ resp.panic /\ resp.page # {})
        => resp.ret.total = Cardinality(ListedMatches)

\* a page past the last one of a table of more than one page was listed
C14_Witness ==
    /\ resp.op = "classroom_list"
    /\ ~ resp.panic
    /\ resp.page = { 3 }
    /\ resp.query # {}
    /\ resp.ret.total > PAGE_SIZE
    /\ resp.ret.results = << >>

\* C15: page p >= 1 holds min(10, max(0, total - 10 * (p - 1))) rows, all
\* matching; the pages 1..ceil(total / 10) of an unchanged store are
\* pairwise disjoint and together hold every matching row.
C15_PageSlices ==
    (resp.op \in { "classroom_list", "user_list" } /\ ~ resp.panic /\ resp.page # {})
        => \A p \in resp.page :
              LET total == resp.ret.total
                  rest == total - PAGE_SIZE * (p - 1)
                  size == IF rest < 0 THEN 0 ELSE IF rest < PAGE_SIZE THEN rest ELSE PAGE_SIZE
                  last == (total + PAGE_SIZE - 1) \div PAGE_SIZE
              IN  /\ Len(resp.ret.results) = size
                  /\ Range(resp.ret.results) \subseteq ListedMatches
                  /\ \A q \in 1..last :
                        q # p => Range(ListedPage(q)) \cap Range(resp.ret.results) = {}
                  /\ UNION { Range(ListedPage(q)) : q \in 1..last } = ListedMatches

(***************************************************************************)
(* Id allocation                                                           *)
(***************************************************************************)
\* the rows of store d, per kind
Rows(d) ==
    [users |-> Values(d.users),
     classrooms |-> Values(d.classrooms),
     classes |-> Values(d.classes),
     subjects |-> Values(d.subjects),
     subjects_teachers |-> Values(d.subjects_teachers),
     subjects_students |-> Values(d.subjects_students),
     occupancies |-> Values(d.occupancies)]

\* the ids of the rows of kind k a step has put in the store
NewIds(k) == { row.id : row \in Rows(db')[k] \ Rows(db)[k] }

\* C4: within one kind, every add assigns an id strictly greater than every
\* id assigned earlier for that kind, whatever was removed in between.
C4_AddsAssignIncreasingIds ==
    [][\A k \in Kinds : \A id \in NewIds(k) : \A old \in assigned.ever[k] : id > old]_vars

\* a classroom was added after the seeded classroom had been removed
C4_Witness ==
    /\ resp.op = "classroom_add"
    /\ DOMAIN db.classrooms = { 1 }
    /\ assigned.ever.classrooms = { 0, 1 }

\* C5 (as stated): over any sequence of engine operations, reset included,
\* an id once assigned is never assigned again.
C5_NeverReassigned ==
    [][\A k \in Kinds : NewIds(k) \cap assigned.ever[k] = {}]_vars

\* C5 (amended): between two resets an id once assigned is never assigned
\* again; a reset clears the store and restarts every allocator at 0.
C5_NeverReassignedBetweenResets ==
    [][resp'.op # "reset" =>
          \A k \in Kinds : NewIds(k) \cap assigned.since_reset[k] = {}]_vars

\* after a reset, a user was added in a store a user had been removed from
C5_Witness ==
    /\ resp.op = "user_add"
    /\ assigned.since_reset.occupancies # assigned.ever.occupancies
    /\ assigned.since_reset.users # Live(db).users

(***************************************************************************)
(* Teachers of a subject                                                   *)
(***************************************************************************)
\* C8: removing the teacher in charge of a subject from that subject is
\* rejected and leaves subjects_teachers unchanged, by the engine operation
\* teacher_unset_teaches as by the handler.
C8_InChargeRemovalRejected ==
    \A row \in Values(db.subjects_teachers) :
        (row.in_charge /\ row.subject_id \in DOMAIN db.subjects) =>
            /\ teacher_unset_teaches(db, row.teacher_id, row.subject_id).subjects_teachers
                  = db.subjects_teachers
            /\ LET r == route_subject_teacher_delete(db, row.subject_id,
                                                     << row.teacher_id >>)
               IN  ~ r.ret /\ r.db.subjects_teachers = db.subjects_teachers

\* C9: teacher_set_teaches adds no row and keeps the flag when a row for the
\* pair exists, and otherwise adds exactly one row, not in charge; so no
\* (subject, teacher) pair ever has two rows.  The states are those the
\* requests reach: teacher_post calls teacher_set_teaches only for a subject
\* that exists, and _subject_add inserts its row without a lookup.
C9_SetTeachesAddsAtMostOneRow ==
    /\ \A teacher_id \in TeacherIds, subject_id \in 0..db.next_subject_id :
          LET after == teacher_set_teaches(db, teacher_id, subject_id).subjects_teachers
              added == DOMAIN after \ DOMAIN db.subjects_teachers
          IN  /\ \A k \in DOMAIN db.subjects_teachers :
                    k \in DOMAIN after /\ after[k] = db.subjects_teachers[k]
              /\ IF TeachesRows(db, subject_id, teacher_id) # {}
                 THEN added = {}
                 ELSE /\ Cardinality(added) = 1
                      /\ \A k \in added :
                            /\ after[k].teacher_id = teacher_id
                            /\ after[k].subject_id = subject_id
                            /\ ~ after[k].in_charge
    /\ \A a \in DOMAIN db.subjects_teachers, b \in DOMAIN db.subjects_teachers :
          (/\ db.subjects_teachers[a].subject_id = db.subjects_teachers[b].subject_id
           /\ db.subjects_teachers[a].teacher_id = db.subjects_teachers[b].teacher_id)
              => a = b

\* a teacher was assigned to the seeded subject next to its teacher in charge
C9_Witness ==
    /\ resp.op = "route_subject_teacher_post"
    /\ resp.ret
    /\ \E a \in DOMAIN db.subjects_teachers, b \in DOMAIN db.subjects_teachers :
          /\ db.subjects_teachers[a].subject_id = db.subjects_teachers[b].subject_id
          /\ db.subjects_teachers[a].in_charge
          /\ ~ db.subjects_teachers[b].in_charge

(***************************************************************************)
(* Referential integrity                                                   *)
(***************************************************************************)
\* the rows of subjects_teachers in charge of subject id
InCharge(d, id) ==
    { k \in DOMAIN d.subjects_teachers :
        d.subjects_teachers[k].subject_id = id /\ d.subjects_teachers[k].in_charge }

\* C2: through the requests that create, update and remove subjects, assign
\* and unassign teachers and remove teachers, every live subject keeps exactly
\* one subjects_teachers row with in_charge = true.
C2_ExactlyOneInCharge ==
    \A id \in DOMAIN db.subjects : Cardinality(InCharge(db, id)) = 1

\* the teacher in charge of the seeded subject was changed by an update
C2_Witness ==
    /\ resp.op = "route_subject_update"
    /\ resp.ret
    /\ 0 \in DOMAIN db.subjects
    /\ \E k \in InCharge(db, 0) : db.subjects_teachers[k].teacher_id # 3
    /\ \E k \in DOMAIN db.subjects_teachers :
          /\ db.subjects_teachers[k].subject_id = 0
          /\ db.subjects_teachers[k].teacher_id = 3
          /\ ~ db.subjects_teachers[k].in_charge

\* every foreign key of a live row of store d names a live row
ForeignKeysLive(d) ==
    /\ \A x \in Values(d.subjects) : class_get(d, x.class_id) # {}
    /\ \A u \in Values(d.users) :
          u.kind.tag = "Student" => class_get(d, u.kind.class_id) # {}
    /\ \A x \in Values(d.subjects_teachers) :
          /\ user_get_teacher_by_id(d, x.teacher_id) # {}
          /\ subject_get(d, x.subject_id) # {}
    /\ \A x \in Values(d.subjects_students) :
          /\ user_get_student_by_id(d, x.student_id) # {}
          /\ subject_get(d, x.subject_id) # {}
    /\ \A x \in Values(d.occupancies) :
          /\ x.classroom_id # None => classroom_get(d, x.classroom_id) # {}
          /\ x.subject_id # None => subject_get(d, x.subject_id) # {}
          /\ user_get_teacher_by_id(d, x.teacher_id) # {}

\* C3: through the request handlers every foreign key of a live row names a
\* live row of the target kind, bulk removals included.
C3_ForeignKeysLive == ForeignKeysLive(db)

(***************************************************************************)
(* Groups                                                                  *)
(***************************************************************************)
\* C6: every live subject has group_count >= 1: a new subject starts with 1,
\* subject_add_group adds exactly 1, subject_remove_group takes exactly 1 and
\* returns true only from 2 up, and at 1 returns false and leaves the store,
\* dirty flag included, as it is.
C6_GroupCountAtLeastOne ==
    /\ \A id \in DOMAIN db.subjects :
          LET n == db.subjects[id].group_count
              added == subject_add_group(db, id)
              removed == subject_remove_group(db, id)
          IN  /\ n >= 1
              /\ added.db.subjects[id].group_count = n + 1
              /\ removed.ret = (n >= 2)
              /\ n >= 2 => removed.db.subjects[id].group_count = n - 1
              /\ n = 1 => removed.db = db
    /\ \A teacher_in_charge_id \in TeacherIds :
          subject_add(db, [class_id |-> 0, name |-> << "N" >>,
                           teacher_in_charge_id |-> teacher_in_charge_id])
              .subjects[db.next_subject_id].group_count = 1

\* the removal of a group was refused for the seeded subject, left with one
\* group and two students
C6_Witness ==
    /\ resp.op = "route_subject_group_delete"
    /\ ~ resp.ret
    /\ ~ resp.panic
    /\ 0 \in DOMAIN db.subjects
    /\ db.subjects[0].group_count = 1
    /\ Cardinality(subject_students(db, 0)) = 2
    /\ \A x \in Values(db.subjects_students) : x.group_number = 0

\* C7: after every completed request every subjects_students row of a live
\* subject has group_number < group_count of its subject.
C7_GroupNumberInRange ==
    ~ resp.panic =>
        \A x \in Values(db.subjects_students) :
            x.subject_id \in DOMAIN db.subjects
                => x.group_number < db.subjects[x.subject_id].group_count

(***************************************************************************)
(* Distribution                                                            *)
(***************************************************************************)
RECURSIVE Sum(_)
Sum(seq) == IF seq = << >> THEN 0 ELSE Head(seq) + Sum(Tail(seq))

\* the rows of subject_id in store d with group number k
GroupRows(d, subject_id, k) ==
    { x \in Values(d.subjects_students) : x.subject_id = subject_id /\ x.group_number = k }

\* C16: group_numbers(n, g) has g entries that sum to n, differ by at most 1
\* and do not increase with the group index; after distribute_subject_groups
\* group k of the subject has group_numbers(n, g)[k] rows.
C16_GroupsBalanced ==
    /\ \A n \in 0..(3 * MaxGroups), g \in 1..MaxGroups :
          LET sizes == group_numbers(n, g)
          IN  /\ Len(sizes) = g
              /\ Sum(sizes) = n
              /\ \A i \in 1..g, j \in 1..g :
                    /\ sizes[i] - sizes[j] <= 1
                    /\ i < j => sizes[i] >= sizes[j]
    /\ \A subject_id \in DOMAIN db.subjects :
          \A student_ids \in SortChoices(db, subject_id) :
              LET r == distribute_subject_groups(db, subject_id, student_ids)
                  g == db.subjects[subject_id].group_count
                  n == Cardinality(SubjectStudentIds(db, subject_id))
              IN  ~ r.panic =>
                      \A k \in 0..(g - 1) :
                          Cardinality(GroupRows(r.db, subject_id, k))
                              = group_numbers(n, g)[k + 1]

\* four students were distributed over three groups
C16_Witness ==
    /\ resp.op = "distribute_subject_groups"
    /\ db.subjects[0].group_count = 3
    /\ Cardinality(GroupRows(db, 0, 0)) = 2
    /\ Cardinality(GroupRows(db, 0, 1)) = 1
    /\ Cardinality(GroupRows(db, 0, 2)) = 1

\* C17: distribute_subject_groups run twice in a row gives what one run
\* gives, and the group of each student depends only on the enrolled
\* students and group_count: whatever order the table is iterated in, the
\* assignment is the same.
C17_DistributeDeterministic ==
    \A subject_id \in DOMAIN db.subjects :
        \A o1 \in SortChoices(db, subject_id), o2 \in SortChoices(db, subject_id) :
            LET r1 == distribute_subject_groups(db, subject_id, o1)
                r2 == distribute_subject_groups(db, subject_id, o2)
            IN  /\ r1.db.subjects_students = r2.db.subjects_students
                /\ distribute_subject_groups(r1.db, subject_id, o1).db = r1.db

(***************************************************************************)
(* Free checks and the audit log                                           *)
(***************************************************************************)
\* occupancy o of store d lies inside the window
Inside(o, from, to) == o.start_datetime >= from /\ o.end_datetime <= to

\* C18: classroom_free(c, from, to) is false exactly when an occupancy of
\* classroom c lies inside the window; it is true when nothing is booked in
\* c, and false once an occupancy inside the window is added in c.
C18_ClassroomFreeIsContainment ==
    /\ \A c \in 0..db.next_classroom_id, from \in Instants, to \in Instants :
          /\ classroom_free(db, c, from, to)
                = ~ \E o \in Values(db.occupancies) :
                        o.classroom_id = c /\ Inside(o, from, to)
          /\ (\A o \in Values(db.occupancies) : o.classroom_id # c)
                => classroom_free(db, c, from, to)
    /\ \A occupancy \in { o \in NewOccupancies(db) : o.classroom_id # None } :
          \A r \in { occupancies_add(db, occupancy, 0) } :
              ~ r.panic =>
                  \A from \in Instants, to \in Instants :
                      Inside(occupancy, from, to)
                          => ~ classroom_free(r.db, occupancy.classroom_id, from, to)

\* an occupancy was added in classroom 0 from 2 to 3: the classroom is taken
\* for the window 2..3 and free for the window 3..3, which the occupancy
\* overlaps
C18_Witness ==
    /\ resp.op = "occupancies_add"
    /\ ~ resp.panic
    /\ \E o \in Values(db.occupancies) :
          o.id = db.next_occupancy_id - 1 /\ o.classroom_id = 0 /\ o.start_datetime = 2
    /\ ~ classroom_free(db, 0, 2, 3)
    /\ classroom_free(db, 0, 3, 3)

\* C19: group_free(class, subject, group, from, to) is false exactly when an
\* occupancy of that subject and group lies inside the window, whatever the
\* class argument is.
C19_GroupFreeIgnoresClass ==
    \A class_id \in 0..db.next_class_id, subject_id \in 0..db.next_subject_id,
       group_number \in 0..(MaxGroups - 1), from \in Instants, to \in Instants :
        group_free(db, class_id, subject_id, group_number, from, to)
            = ~ \E o \in Values(db.occupancies) :
                    /\ o.subject_id = subject_id
                    /\ o.group_number = group_number
                    /\ Inside(o, from, to)

\* C19 (amended): group_free(class, subject, group, from, to) is false
\* exactly when an occupancy of that subject and group lies inside the window
\* and the subject is in the store with class_id = class; for any other class
\* argument it is true.
C19_GroupFreeChecksClass ==
    \A class_id \in 0..db.next_class_id, subject_id \in 0..db.next_subject_id,
       group_number \in 0..(MaxGroups - 1), from \in Instants, to \in Instants :
        group_free(db, class_id, subject_id, group_number, from, to)
            = ~ \E o \in Values(db.occupancies) :
                    /\ o.subject_id = subject_id
                    /\ o.group_number = group_number
                    /\ Inside(o, from, to)
                    /\ subject_id \in DOMAIN db.subjects
                    /\ db.subjects[subject_id].class_id = class_id

\* an occupancy of group 1 of the seeded subject was added from 2 to 3: the
\* group is taken for the class of the subject and free for another class
C19_Witness ==
    /\ resp.op = "occupancies_add"
    /\ ~ resp.panic
    /\ \E o \in Values(db.occupancies) :
          /\ o.id = db.next_occupancy_id - 1
          /\ o.subject_id = 0
          /\ o.group_number = 1
          /\ o.start_datetime = 2
    /\ ~ group_free(db, db.subjects[0].class_id, 0, 1, 2, 3)
    /\ group_free(db, db.subjects[0].class_id + 1, 0, 1, 2, 3)

\* the users an occupancy of a subject affects: its teacher and the students
\* of the subject, those of its group when it has one
Affected(d, occupancy) ==
    { occupancy.teacher_id } \cup
    { x.student_id : x \in { y \in Values(d.subjects_students) :
                                /\ y.subject_id = occupancy.subject_id
                                /\ occupancy.group_number \in { None, y.group_number } } }

\* the modification list of user uid in store d
ModificationsOf(d, uid) ==
    IF uid \in DOMAIN d.modifications THEN d.modifications[uid] ELSE << >>

\* C20: occupancies_add for a subject puts one Create record at the head of
\* the modification list of the teacher and of every student of the subject
\* (of the occupancy's group when it has one) and leaves the list of every
\* other user as it was.
C20_AddRecordsForAffectedUsers ==
    \A occupancy \in { o \in NewOccupancies(db) : o.subject_id # None } :
        LET r == occupancies_add(db, occupancy, 0)
        IN  ~ r.panic =>
                \A uid \in 0..db.next_user_id :
                    LET old == ModificationsOf(db, uid)
                        new == ModificationsOf(r.db, uid)
                    IN  IF uid \in Affected(db, occupancy)
                        THEN /\ Len(new) = Len(old) + 1
                             /\ Tail(new) = old
                             /\ Head(new).modification_type = "Create"
                             /\ Head(new).occupancy.subject_id = occupancy.subject_id
                        ELSE new = old

\* an occupancy of group 1 of the seeded subject was added while the subject
\* had students in group 0 and in group 1
C20_Witness ==
    /\ resp.op = "occupancies_add"
    /\ ~ resp.panic
    /\ \E o \in Values(db.occupancies) :
          o.id = db.next_occupancy_id - 1 /\ o.subject_id = 0 /\ o.group_number = 1
    /\ GroupRows(db, 0, 0) # {}
    /\ \E x \in GroupRows(db, 0, 1) :
          /\ Len(ModificationsOf(db, x.student_id)) = 1
          /\ Head(ModificationsOf(db, x.student_id)).occupancy.occupancy_start
                \in { w[1] : w \in OccupancyWindows }

\* C21: every user's modification list has at most 25 entries, newest
\* first; after k occupancy creations affecting the user since the last
\* reset it has min(k, 25) entries, the most recent ones.
C21_LogHoldsLatest25 ==
    \A uid \in DOMAIN resp.logged :
        LET list == ModificationsOf(db, uid)
            k == Len(resp.logged[uid])
            kept == IF k < 25 THEN k ELSE 25
        IN  /\ Len(list) <= 25
            /\ Len(list) = kept
            /\ Stamps(list) = SubSeq(resp.logged[uid], 1, kept)
            /\ \A i \in 1..(Len(list) - 1) :
                  list[i].modification_timestamp >= list[i + 1].modification_timestamp

\* more than 25 creations have affected a user, the clock moved on the way,
\* and the list holds 25 records
C21_Witness ==
    /\ resp.op = "occupancies_add"
    /\ \E uid \in DOMAIN resp.logged :
          /\ Len(resp.logged[uid]) > 25
          /\ Len(ModificationsOf(db, uid)) = 25
          /\ resp.logged[uid][1] > resp.logged[uid][26]

(***************************************************************************)
(* Persistence and tasks                                                   *)
(***************************************************************************)
\* the positions at which a task holds the guard of the Mutex
CriticalPcs ==
    { "locked", "group_post_distribute", "delay_locked", "save_locked",
      "export_create", "export_write" }

\* the positions at which a task stands in an .await on a file or a timer
SuspendedPcs ==
    { "sleeping", "export_create", "export_write", "save_create", "save_write",
      "save_sleep" }

\* the tasks that have ended a critical section of a handler
Ended == { t \in DOMAIN tasks : tasks[t].left # Nothing }

\* C22: an operation that changes the contents of the store (a table, a
\* counter, the tokens or the delay), import included, leaves dirty true
\* when it releases the lock.
C22_ChangesLeaveDirty ==
    \A t \in Ended :
        Contents(tasks[t].left.db) # Contents(tasks[t].seen) => tasks[t].left.db.dirty

\* C23: the flush writes a snapshot only when the store is dirty: on a dirty
\* store it clears the flag and serializes the whole store as it is then,
\* under the lock; on a clean store it changes neither store nor file and
\* writes nothing before its next round.
C23_FlushOnlyWhenDirty ==
    [][/\ (tasks[Flush].pc = "save_locked" /\ tasks'[Flush].pc # "save_locked") =>
             /\ lock = Flush
             /\ IF db.dirty
                THEN /\ db' = [db EXCEPT !.dirty = FALSE]
                     /\ bincode_deserialize(tasks'[Flush].hold) = { db' }
                     /\ tasks'[Flush].pc = "save_create"
                ELSE /\ db' = db
                     /\ files' = files
                     /\ tasks'[Flush].pc = "save_sleep"
       /\ files'.db_bin # files.db_bin =>
             /\ tasks[Flush].pc \in { "save_create", "save_write" }
             /\ files'.db_bin \in { Truncated, tasks[Flush].hold }
       /\ (tasks'[Flush].pc = "save_create" /\ tasks[Flush].pc # "save_create") =>
             db.dirty
      ]_vars

\* a snapshot has been written, and a later round found the store clean and
\* serialized nothing
C23_Witness ==
    /\ Flush \in DOMAIN tasks
    /\ tasks[Flush].pc = "save_sleep"
    /\ tasks[Flush].hold = Nothing
    /\ files.db_bin = bincode_serialize(db)

\* C24: every snapshot written is the store as it was between two complete
\* requests, never as it was in the middle of a request of several steps.
C24_SnapshotsBetweenRequests ==
    files.db_bin.format = "bincode" =>
        Contents(files.db_bin.value) \in assigned.between

\* C25: startup never fails: when db.bin is missing, unreadable or cannot be
\* decoded the store is a freshly seeded one with dirty = true; when it
\* loads the store is what the file holds and nothing is seeded.
C25_StartupLoadsOrSeeds ==
    resp.op = "new" =>
        /\ ~ resp.panic
        /\ IF files.db_bin.format = "bincode"
           THEN db = files.db_bin.value
           ELSE /\ db.dirty
                /\ \E links \in ResetLinkOrders : db = seed_db(Cleared, links, 0)

\* db.bin held a clean store with more classrooms than the seed, and the
\* engine started with it
C25_Witness ==
    /\ resp.op = "new"
    /\ resp.ret
    /\ ~ db.dirty
    /\ db.next_classroom_id > WithRooms(0).next_classroom_id
    /\ db.tokens # {}

\* C26: loading what was dumped gives the store back, and an export followed
\* by an import leaves the live store equal to the store that was exported.
C26_DumpThenLoad ==
    /\ from_file(dirty_to_bincode(db).bytes) = { dirty_to_bincode(db).db }
    /\ Contents(dirty_to_bincode(db).db) = Contents(db)
    /\ \A t \in Ended :
          (tasks[t].req = "import" /\ tasks[t].hold.format = "json") =>
              Contents(tasks[t].left.db) = Contents(tasks[t].hold.value)

\* what the handler of a route makes of store d when it runs alone
Whole(route, d) ==
    CASE route = "classroom_create" -> { route_classroom_create(d, NewRoom) }
      [] route = "student_delete" -> { route_student_delete(d, GoneStudents) }
      [] route = "group_post" ->
            { route_subject_group_post(d, GroupSubject, student_ids) :
                student_ids \in SortChoices(d, GroupSubject) }

\* C27: at most one task holds the store at a time, and the store and the
\* responses are those of the critical sections run one after the other in
\* the order the lock was taken: each section starts from the store the
\* section before it left and ends with what its handler makes of that
\* store on its own.
C27_CriticalSectionsSerial ==
    /\ Cardinality({ t \in DOMAIN tasks : tasks[t].pc \in CriticalPcs }) <= 1
    /\ \A t \in DOMAIN tasks : tasks[t].pc \in CriticalPcs <=> lock = t
    /\ lock = None => db = assigned.last
    /\ \A t \in DOMAIN tasks : tasks[t].pc \in { "locked", "save_locked" } =>
          tasks[t].seen = assigned.last /\ db = assigned.last
    /\ \A t \in Ended : tasks[t].left \in Whole(tasks[t].req, tasks[t].seen)

\* a task is between the two steps of group_post while another request and
\* the flush wait for the lock, after an earlier request changed the store
C27_Witness ==
    /\ \E t \in DOMAIN tasks :
          /\ tasks[t].pc = "group_post_distribute"
          /\ tasks[t].seen # db
          /\ \E u \in DOMAIN tasks \ { t } : tasks[u].pc = "wait"
    /\ Flush \in DOMAIN tasks
    /\ tasks[Flush].pc = "save_wait"

\* C28: the response delay is never waited for under the lock: the value is
\* read under the lock, the lock is released, and then the task sleeps.
C28_DelayOutsideLock ==
    [][\A t \in DOMAIN tasks :
          /\ (tasks'[t].pc = "sleeping" /\ tasks[t].pc # "sleeping") =>
                /\ lock = t
                /\ tasks'[t].hold = [delay |-> db.delay]
          /\ tasks'[t].pc = "sleeping" => lock' # t
      ]_vars

\* a request sleeps its delay while the flush holds the lock
C28_Witness ==
    /\ \E t \in DOMAIN tasks : tasks[t].pc = "sleeping"
    /\ lock = Flush
    /\ tasks[Flush].pc = "save_locked"

\* C29: no task stands in an await on a file, a timer or another lock while
\* it holds the store lock.
C29_NoSuspensionUnderLock ==
    \A t \in DOMAIN tasks : tasks[t].pc \in SuspendedPcs => lock # t

\* C30: whenever dirty is false the snapshot persisted last equals the store
\* in memory.
C30_CleanMeansPersisted ==
    ~ db.dirty => files.db_bin = bincode_serialize(db)

(***************************************************************************)
(* Blocks of groups, pages, tokens and users                               *)
(***************************************************************************)
\* the group numbers of the students of subject_id in store d, listed in
\* order o
GroupsInOrder(d, subject_id, o) ==
    [i \in DOMAIN o |->
        (CHOOSE x \in Values(d.subjects_students) :
            x.subject_id = subject_id /\ x.student_id = o[i]).group_number]

\* C31: after distribute_subject_groups the students of the subject, listed
\* sorted by full name, have group numbers that never decrease and come in
\* contiguous blocks 0,..,0,1,..,1,2,..: a student with a smaller name is
\* never in a higher group, and three students in two groups are split 0,0,1.
\* (Students with equal full names may be listed in either order.)
C31_GroupsAreBlocksByName ==
    \A subject_id \in DOMAIN db.subjects :
        \A student_ids \in SortChoices(db, subject_id) :
            LET r == distribute_subject_groups(db, subject_id, student_ids)
                g == db.subjects[subject_id].group_count
                name(id) == full_name(CHOOSE u \in user_get_by_id(r.db, id) : TRUE)
                rows == { x \in Values(r.db.subjects_students) : x.subject_id = subject_id }
            IN  ~ r.panic =>
                  /\ \A a \in rows, b \in rows :
                        (StrLeq(name(a.student_id), name(b.student_id))
                           /\ name(a.student_id) # name(b.student_id))
                            => a.group_number <= b.group_number
                  /\ \E o \in SortedStudentIds(r.db, subject_id) :
                        LET seq == GroupsInOrder(r.db, subject_id, o)
                        IN  /\ Len(seq) > 0 => seq[1] = 0
                            /\ \A i \in 1..(Len(seq) - 1) :
                                  seq[i + 1] - seq[i] \in { 0, 1 }
                            /\ (Len(seq) = 3 /\ g = 2) => seq = << 0, 0, 1 >>

\* three students of different names were distributed over two groups: the
\* first two by name are in group 0 and the last is in group 1
C31_Witness ==
    /\ resp.op = "distribute_subject_groups"
    /\ ~ resp.panic
    /\ db.subjects[0].group_count = 2
    /\ \E o \in SortedStudentIds(db, 0) :
          /\ Len(o) = 3
          /\ GroupsInOrder(db, 0, o) = << 0, 0, 1 >>
          /\ \A i \in 1..2 :
                full_name(CHOOSE u \in user_get_by_id(db, o[i]) : TRUE)
                    # full_name(CHOOSE u \in user_get_by_id(db, o[i + 1]) : TRUE)

\* C32: a list request with a page number below 1, or with none, gets the
\* total and the rows of the request for page 1.
C32_PageBelowOneIsPageOne ==
    (resp.op = "route_classroom_list" /\ resp.page \in { {}, { 0 } }) =>
        \E overflow_checks \in BOOLEAN :
            LET first == classroom_list(db, resp.values, 1, resp.query, overflow_checks)
            IN  /\ ~ resp.panic
                /\ ~ first.panic
                /\ resp.ret.total = first.total
                /\ resp.ret.results = first.results

\* page 0 of more than ten classrooms was asked for and the first ten came
C32_Witness ==
    /\ resp.op = "route_classroom_list"
    /\ resp.page = { 0 }
    /\ resp.ret.total > PAGE_SIZE
    /\ Len(resp.ret.results) = PAGE_SIZE

(***************************************************************************)
(* Accounts and their sessions: creation, update, removal, login, logout.  *)
(* The record of a request keeps the users table as it was before it, and  *)
(* issuer remembers, for every token, the id of the user whose login       *)
(* returned it.                                                            *)
(***************************************************************************)
InitUsers ==
    /\ \E links \in ResetLinkOrders : db = reset(Cleared, links, 0)
    /\ resp = [op |-> "new", ret |-> TRUE, panic |-> FALSE, tokens |-> {},
               before |-> db.users]
    /\ assigned = [ever |-> Live(db), since_reset |-> Live(db), issuer |-> {}]
    /\ Quiet

StepUsers(op, r, issuer) ==
    \E x \in { r } :
        /\ Issued(x.db) <= SeedIssued + MaxAdds
        /\ db' = x.db
        /\ resp' = [op |-> op, ret |-> x.ret, panic |-> x.panic, tokens |-> db.tokens,
                    before |-> db.users]
        /\ \E l \in { Live(x.db) } :
              /\ Removed(l) <= MaxRemoved
              /\ assigned' = [ever |-> Merge(assigned.ever, l),
                              since_reset |-> Merge(assigned.since_reset, l),
                              issuer |-> issuer]
        /\ UNCHANGED << files, lock, tasks >>

\* the usernames a session may be opened for: the administrator's and the
\* one derived for the accounts a create request may make
AccountNames ==
    { username_from_name(test_users[1].first_name, test_users[1].last_name) }
        \cup { username_from_name(f, l) : f \in FirstNames, l \in LastNames }

\* the password every created account gets here, the administrator's, a wrong one
AccountPasswords == { << "p" >>, test_users[1].password, << "w" >> }

\* POST /session
do_login ==
    \E username \in AccountNames, password \in AccountPasswords, token \in Tokens :
        LET r == auth_login(db, username, password, token)
        IN  /\ r.ret => \A p \in db.tokens : p[1] # token
            /\ StepUsers("auth_login", r,
                   IF r.ret
                   THEN { p \in assigned.issuer : p[1] # token }
                            \cup { << token, db.users[username].id >> }
                   ELSE assigned.issuer)

\* DELETE /session
do_logout ==
    \E token \in Tokens :
        StepUsers("auth_logout", auth_logout(db, token),
                  { p \in assigned.issuer : p[1] # token })

\* POST /teachers: the critical section of the create handler
do_user_add ==
    \E first_name \in FirstNames, last_name \in LastNames :
        StepUsers("user_add",
                  Ok(user_add(db, NewUser(first_name, last_name, << "p" >>, Teacher)), TRUE),
                  assigned.issuer)

\* the accounts the requests here act on
Accounts == { u \in Values(db.users) : u.username \in AccountNames }

\* PUT /teachers/{id}, PUT /profile: the stored user with a new first name
do_user_update ==
    \E user \in Accounts, first_name \in FirstNames \cup { << "Admin" >> } :
        StepUsers("user_update",
                  Ok(user_update(db, [user EXCEPT !.first_name = first_name]), TRUE),
                  assigned.issuer)

\* DELETE /teachers
do_user_remove ==
    \E ids \in Lists({ u.id : u \in Accounts } \cup { db.next_user_id }) :
        StepUsers("user_remove", user_remove(db, ids), assigned.issuer)

NextUsers ==
    \/ do_login
    \/ do_logout
    \/ do_user_add
    \/ do_user_update
    \/ do_user_remove

SpecUsers == InitUsers /\ [][NextUsers]_vars

\* C33: a token resolves to the account, with the same user id, whose login
\* issued it, or to no user, whatever users were added, updated or removed
\* since.
C33_TokenKeepsItsAccount ==
    \A p \in assigned.issuer :
        \A u \in auth_get_user(db, p[1]) : u.id = p[2]

\* C34: user_add leaves every user that existed in place and unchanged, and
\* the number of users is one more than before.
C34_UserAddOnlyAdds ==
    resp.op = "user_add" =>
        /\ Cardinality(DOMAIN db.users) = Cardinality(DOMAIN resp.before) + 1
        /\ \A n \in DOMAIN resp.before :
              n \in DOMAIN db.users /\ db.users[n] = resp.before[n]

(***************************************************************************)
(* The authentication filters (filters/authed.rs) in front of the profile  *)
(* and teacher routes.  guard, guard_kind and the handler each take the    *)
(* Mutex for themselves; a request task stands at the .await of each lock  *)
(* while other tasks run.  hold carries what the task passes from one      *)
(* critical section to the next: the token of the Authorization header,    *)
(* then the username guard returned.                                       *)
(***************************************************************************)
AuthedRoutes == { "put_profile", "last_occupancies_modifications", "teacher_delete" }

\* the teacher the delete request names
GoneTeachers == << 1 >>

\* the logins of the seeded administrator and teacher
Credentials ==
    { [username |-> username_from_name(test_users[i].first_name, test_users[i].last_name),
       password |-> test_users[i].password] : i \in { 1, 2 } }

\* UpdateRequest: each field is a set, {} when absent
ProfileRequests ==
    { [old_password |-> {}, password |-> {}, first_name |-> f, last_name |-> {}]
        : f \in { {}, { << "A" >> } } }

\* routes/profile.rs put_profile, under the lock
put_profile(d, username, request) ==
    IF user_get(d, username) = {}
    THEN [db |-> d, ret |-> FALSE, panic |-> TRUE, status |-> "panic"]
    ELSE LET user == CHOOSE u \in user_get(d, username) : TRUE
             u1 == IF request.password # {}
                   THEN [user EXCEPT !.password = CHOOSE x \in request.password : TRUE]
                   ELSE user
             u2 == IF request.first_name # {}
                   THEN [u1 EXCEPT !.first_name = CHOOSE x \in request.first_name : TRUE]
                   ELSE u1
             u3 == IF request.last_name # {}
                   THEN [u2 EXCEPT !.last_name = CHOOSE x \in request.last_name : TRUE]
                   ELSE u2
             modified == request.password # {} \/ request.first_name # {}
                            \/ request.last_name # {}
         IN  IF user.kind.tag # "Administrator"
                   /\ (request.first_name # {} \/ request.last_name # {})
             THEN [db |-> d, ret |-> FALSE, panic |-> FALSE, status |-> "Unauthorized"]
             ELSE IF request.old_password # {} /\ request.password # {}
                       /\ user.password # (CHOOSE x \in request.old_password : TRUE)
             THEN [db |-> d, ret |-> FALSE, panic |-> FALSE, status |-> "403"]
             ELSE IF (request.old_password = {}) # (request.password = {})
             THEN [db |-> d, ret |-> FALSE, panic |-> FALSE, status |-> "Malformed"]
             ELSE IF modified
             THEN [db |-> user_update(d, u3), ret |-> TRUE, panic |-> FALSE,
                   status |-> "200"]
             ELSE [db |-> d, ret |-> TRUE, panic |-> FALSE, status |-> "204"]

\* routes/profile.rs last_occupancies_modifications, under the lock: the
\* user of the username, then the log of that user
route_last_occupancies_modifications(d, username) ==
    IF user_get(d, username) = {}
    THEN [db |-> d, ret |-> FALSE, panic |-> TRUE, status |-> "panic"]
    ELSE [db |-> d, ret |-> TRUE, panic |-> FALSE, status |-> "200"]

InitAuthed ==
    /\ \E links \in ResetLinkOrders : db = new_db(Missing, links, 0)
    /\ resp = [op |-> "new", ret |-> FALSE, panic |-> FALSE, tokens |-> {}]
    /\ assigned = [begun |-> 0]
    /\ files = [db_bin |-> Missing, save_json |-> Missing]
    /\ lock = None
    /\ tasks = [t \in ReqTasks |-> Idle]

\* a request arrives: a login with its body, or a request on an
\* authenticated route with the token of its Authorization header
Arrive(t) ==
    /\ tasks[t].pc \in { "idle", "responded", "panicked", "rejected" }
    /\ assigned.begun < MaxAuthed
    /\ \/ \E c \in Credentials :
             tasks' = [tasks EXCEPT ![t] =
                         [Idle EXCEPT !.pc = "wait", !.req = "post_session", !.hold = c]]
       \/ \E route \in AuthedRoutes, token \in Tokens :
             tasks' = [tasks EXCEPT ![t] =
                         [Idle EXCEPT !.pc = "guard_wait", !.req = route,
                                      !.hold = [token |-> token]]]
    /\ assigned' = [assigned EXCEPT !.begun = @ + 1]
    /\ UNCHANGED << db, resp, files, lock >>

\* guard: db.lock().await resolves
GuardLock(t) ==
    /\ tasks[t].pc = "guard_wait"
    /\ MutexFree(lock)
    /\ lock' = t
    /\ tasks' = [tasks EXCEPT ![t] = [@ EXCEPT !.pc = "guard_locked"]]
    /\ UNCHANGED << db, resp, assigned, files >>

\* guard: auth_get_user under the lock; the username leaves the section
Guard(t) ==
    /\ tasks[t].pc = "guard_locked"
    /\ lock' = drop_guard(lock, t)
    /\ LET user == auth_get_user(db, tasks[t].hold.token)
       IN  tasks' = [tasks EXCEPT ![t] =
                IF user = {} THEN [@ EXCEPT !.pc = "rejected"]
                ELSE [@ EXCEPT !.pc = IF tasks[t].req = "teacher_delete"
                                      THEN "kind_wait" ELSE "wait",
                               !.hold = [username |->
                                           (CHOOSE u \in user : TRUE).username]]]
    /\ UNCHANGED << db, resp, assigned, files >>

\* guard_kind: db.lock().await resolves
KindLock(t) ==
    /\ tasks[t].pc = "kind_wait"
    /\ MutexFree(lock)
    /\ lock' = t
    /\ tasks' = [tasks EXCEPT ![t] = [@ EXCEPT !.pc = "kind_locked"]]
    /\ UNCHANGED << db, resp, assigned, files >>

\* guard_kind with wanted_kind = [Administrator]: user_get(username) and
\* expect("user should be authenticated already")
GuardKind(t) ==
    /\ tasks[t].pc = "kind_locked"
    /\ lock' = drop_guard(lock, t)
    /\ LET user == user_get(db, tasks[t].hold.username)
       IN  tasks' = [tasks EXCEPT ![t] =
                [@ EXCEPT !.pc = IF user = {} THEN "panicked"
                                 ELSE IF (CHOOSE u \in user : TRUE).kind.tag
                                            = "Administrator"
                                 THEN "wait" ELSE "rejected"]]
    /\ UNCHANGED << db, resp, assigned, files >>

\* the critical section of the handler: post_session, put_profile,
\* last_occupancies_modifications, teacher delete.  A handler that returned
\* a reply goes on to the delayed filter.
AuthedHandle(t) ==
    /\ tasks[t].pc = "locked"
    /\ \E token \in Tokens, request \in ProfileRequests :
          LET at == tasks[t]
              login == auth_login(db, at.hold.username, at.hold.password, token)
              r == IF at.req = "post_session"
                   THEN [db |-> login.db, ret |-> login.ret, panic |-> FALSE,
                         status |-> IF login.ret THEN "200" ELSE "403"]
                   ELSE IF at.req = "put_profile"
                   THEN put_profile(db, at.hold.username, request)
                   ELSE IF at.req = "last_occupancies_modifications"
                   THEN route_last_occupancies_modifications(db, at.hold.username)
                   ELSE LET d == route_teacher_delete(db, GoneTeachers)
                        IN  [db |-> d.db, ret |-> d.ret, panic |-> d.panic,
                             status |-> IF d.ret THEN "200" ELSE "404"]
          IN  /\ at.req = "post_session" => \A p \in db.tokens : p[1] # token
              /\ db' = r.db
              /\ resp' = [op |-> at.req, ret |-> r.ret, panic |-> r.panic,
                          tokens |-> db.tokens]
              /\ tasks' = [tasks EXCEPT ![t] =
                    [@ EXCEPT !.pc = IF r.panic THEN "panicked"
                                     ELSE IF r.status \in { "Unauthorized", "Malformed" }
                                     THEN "rejected"
                                     ELSE "delay_wait",
                              !.hold = Nothing]]
    /\ lock' = drop_guard(lock, t)
    /\ UNCHANGED << assigned, files >>

NextAuthed ==
    \E t \in ReqTasks :
        \/ Arrive(t)
        \/ GuardLock(t)
        \/ Guard(t)
        \/ KindLock(t)
        \/ GuardKind(t)
        \/ Acquire(t)
        \/ AuthedHandle(t)
        \/ DelayLock(t)
        \/ DelayGet(t)
        \/ DelayWake(t)

SpecAuthed == InitAuthed /\ [][NextAuthed]_vars

\* C35: the user lookups that follow the token check always find the
\* user: no guard_kind and no authenticated handler fails its expectation,
\* whatever other requests run between the lock acquisitions.
C35_AuthenticatedUserIsFound ==
    \A t \in ReqTasks : tasks[t].pc # "panicked"

\* C36: after any sequence of validated requests, removals included, every
\* request completes: subject_students, distribute_subject_groups and the
\* other engine lookups never fail an expectation on a reference.
C36_LookupsComplete == resp.panic = FALSE

(***************************************************************************)
(* Occupancies made through the handlers of a subject                      *)
(* (routes/subject.rs occupancies_create, occupancies_groups_create),      *)
(* with the groups of the subject added and removed in between.            *)
(***************************************************************************)
\* (start, end) of a creation request
BookingWindows == { << 0, 3 >>, << 1, 2 >>, << 4, 5 >>, << 5, 4 >>, << 6, 7 >> }

\* SubjectOccupancyCreationRequest: the teacher of the seeded subject or the
\* test teacher, with or without the seeded classroom
BookingRequests ==
    { [classroom_id |-> classroom_id, teacher_id |-> teacher_id,
       start |-> w[1], end |-> w[2], occupancy_type |-> occupancy_type,
       name |-> << "o" >>] :
        classroom_id \in { None, 0 }, teacher_id \in { 1, 3 },
        w \in BookingWindows, occupancy_type \in { "CM", "TD", "External" } }

\* the seeded store after a removal of all its occupancies
InitBooking ==
    /\ \E links \in ResetLinkOrders :
          db = occupancies_remove(reset(Cleared, links, 0), << 0, 1 >>).db
    /\ resp = [op |-> "new", ret |-> TRUE, panic |-> FALSE, tokens |-> {}]
    /\ assigned = [ever |-> Live(db), since_reset |-> Live(db)]
    /\ Quiet

\* POST /subjects/{id}/occupancies
do_occupancies_create ==
    \E request \in BookingRequests, now \in Clock :
        Step("route_subject_occupancies_create",
             route_subject_occupancies_create(db, 0, request, now))

\* POST /subjects/{id}/groups/{number}/occupancies
do_occupancies_groups_create ==
    \E group_number \in 0..(MaxGroups - 1), request \in BookingRequests, now \in Clock :
        Step("route_subject_occupancies_groups_create",
             route_subject_occupancies_groups_create(db, 0, group_number, request, now))

NextBooking ==
    \/ do_occupancies_create
    \/ do_occupancies_groups_create
    \/ do_subject_group_post
    \/ do_subject_group_delete

\* from a store without occupancies
SpecBooking == InitBooking /\ [][NextBooking]_vars

\* from the seeded store
SpecBooked == Init /\ [][NextBooking]_vars

\* two occupancies share an instant other than an end point
Overlap(a, b) ==
    a.start_datetime < b.end_datetime /\ b.start_datetime < a.end_datetime

\* C37: after creations through the subject occupancy handlers, on a store
\* that had no occupancies, no two stored occupancies of the same classroom
\* overlap in time, nor two of the same teacher.
C37_NoDoubleBooking ==
    \A a \in Values(db.occupancies), b \in Values(db.occupancies) :
        (a.id # b.id /\ Overlap(a, b)) =>
            /\ a.teacher_id # b.teacher_id
            /\ a.classroom_id # None => a.classroom_id # b.classroom_id

\* C38: every stored occupancy that has a group_number has one below the
\* group_count of its subject, also after groups of the subject were removed.
C38_OccupancyGroupExists ==
    \A o \in Values(db.occupancies) :
        (o.group_number # None /\ o.subject_id \in DOMAIN db.subjects) =>
            o.group_number < db.subjects[o.subject_id].group_count

\* C39: a stored occupancy has a group_number exactly when its type is TD or
\* TP: the seeded occupancies and those of the two creation handlers.
C39_GroupIffTutorial ==
    \A o \in Values(db.occupancies) :
        (o.group_number # None) <=> (o.occupancy_type \in { "TD", "TP" })

\* beside the seeded occupancies, a lecture was created without a group and
\* a tutorial with one
C39_Witness ==
    /\ \E o \in Values(db.occupancies) :
          o.id >= SeedOccupancies /\ o.occupancy_type = "CM" /\ o.group_number = None
    /\ \E o \in Values(db.occupancies) :
          o.id >= SeedOccupancies /\ o.occupancy_type = "TD" /\ o.group_number # None
    /\ \E o \in Values(db.occupancies) : o.id < SeedOccupancies

(***************************************************************************)
(* The flush under fair scheduling.  tokio runs every task that can run:   *)
(* save_regurarly goes round for ever, its timer fires, its file writes    *)
(* succeed, and a handler that holds the Mutex runs to its end.  The       *)
(* Mutex of tokio hands the lock to its waiters in the order they came, so *)
(* a task that waits for it gets it.  Requests arrive or not; the store    *)
(* changes through set_delay and import.                                   *)
(***************************************************************************)
FlushRoutes == { "set_delay", "import" }

NextFlush ==
    \/ \E t \in ReqTasks :
          \/ Start(t, FlushRoutes, MaxManaged)
          \/ Acquire(t)
          \/ SetDelay(t)
          \/ Import(t)
    \/ SaveLock
    \/ SaveCheck
    \/ SaveCreate
    \/ SaveWrite
    \/ SaveSleep

SpecFlush ==
    /\ InitServer
    /\ [][NextFlush]_vars
    /\ SF_vars(SaveLock)
    /\ WF_vars(SaveCheck)
    /\ WF_vars(SaveCreate)
    /\ WF_vars(SaveWrite)
    /\ WF_vars(SaveSleep)
    /\ \A t \in ReqTasks : SF_vars(Acquire(t)) /\ WF_vars(SetDelay(t) \/ Import(t))

\* the handler routes and the flush, under the same scheduling
SpecServerFair ==
    /\ SpecServer
    /\ WF_vars(SaveLock)
    /\ WF_vars(SaveCheck)
    /\ WF_vars(SaveCreate)
    /\ WF_vars(SaveWrite)
    /\ WF_vars(SaveSleep)
    /\ \A t \in ReqTasks :
          WF_vars(Acquire(t) \/ Handle(t) \/ GroupPostAdd(t) \/ GroupPostDistribute(t)
                    \/ DelayLock(t) \/ DelayGet(t) \/ DelayWake(t))

\* db.bin holds the store in memory, and the store is not dirty
Synced == ~ is_dirty(db) /\ from_file(files.db_bin) = { db }

\* C40: when the store is dirty, a snapshot with that change is persisted
\* later on; and once the changes have stopped, from some point on the store
\* is not dirty and db.bin holds the store in memory.
C40_EventuallyPersisted ==
    /\ is_dirty(db) ~> (\E d \in from_file(files.db_bin) : Contents(d) = Contents(db))
    /\ <>[]Synced

====
